---- MODULE Spec2Model ----
(***************************************************************************)
(* Model of the umpire-impact pipeline: the Call Corrector                 *)
(* (StatcastProcessor.determine_correct_call), the PA Aggregator           *)
(* (create_plate_appearance_groups + calculate_pa_metrics), the Baseline   *)
(* Estimator, the Post-Bad-Call Extractor and the Impact Scorer            *)
(* (UmpireImpactAnalyzer).                                                 *)
(*                                                                         *)
(* Every stage is a pure table transformation, so every stage has its own  *)
(* specification: Init draws the stage's input table from a bounded family *)
(* and one action applies the whole method.  Lengths are in hundredths of  *)
(* a foot, wOBA statistics in units of 0.0001 (the code rounds every       *)
(* aggregate to 4 decimals), strings are sequences of character codes.     *)
(***************************************************************************)
EXTENDS Integers, Sequences, FiniteSets, TLC

VARIABLES
    pc,                 \* which stage runs and how far it has got
    pitch_df,           \* determine_correct_call: the input frame df
    result_df,          \* determine_correct_call: the returned result_df
    runs,               \* determine_correct_call: how often it has been run
    calls_in,           \* PA Aggregator: the corrected pitch rows handed in
    pa_metrics_df,      \* PA Aggregator: the PA table calculate_pa_metrics returns
    df,                 \* analyzer: the processed PA table
    calls_df,           \* analyzer: the adverse events (analyze_post_call_performance)
    impact_analysis,    \* analyzer: records of analyze_performance_after_bad_calls
    bad_call_counts,    \* scorer: bad_call_counts, computed from those records
    pa_table,           \* baseline: the PA table, its rows counted by kind
    clean_pas,          \* baseline: the rows collected in clean_pas, counted by kind
    baseline_stats,     \* baseline: the table calculate_baseline_performance returns
    baseline_df,        \* scorer: baseline records handed in
    post_perf,          \* scorer: post_bad_call_performance, the aggregated impact_df
    merged_df,          \* scorer: the table calculate_psychological_impact_scores returns
    pa_df,              \* qualification: the PA table handed to filter_qualified_batters
    min_pa,             \* qualification: the min_pa the caller asks for
    filtered_df,        \* qualification: the table filter_qualified_batters returns
    flow_in,            \* run_full_analysis: what the processed table holds, per batter
    scouting_report,    \* run_full_analysis: the report it returns
    raised,             \* run_full_analysis: an exception has left it
    files,              \* input files: the files that exist under data/ and reports/
    steps,              \* input files: what the running call has done so far, in order
    outcome,            \* input files: how the call ended
    raw_pitch_df,       \* clean_data: the raw pitch rows handed in
    clean_pitch_df,     \* clean_data: the clean_df it returns
    written_details,    \* persisting: incorrect_call_details of the table handed to to_csv, per PA
    csv_cells,          \* persisting: the text of that column in the processed file, per PA
    loaded_details,     \* persisting: incorrect_call_details as load_processed_data returns it
    targets_df,         \* generate_scouting_report: the impact_df handed in
    report_dict,        \* generate_scouting_report: the dict it returns
    force_redownload,   \* run_full_pipeline: its force_redownload argument
    max_retries,        \* _fetch_window: its max_retries argument
    pause,              \* _fetch_window: its pause argument
    attempt,            \* _fetch_window: the loop variable
    provider_calls,     \* _fetch_window: the calls of statcast made so far and how each ended
    sleeps,             \* _fetch_window: the arguments of time.sleep so far
    fetched,            \* _fetch_window: what it returned or raised
    month_days,         \* fetch_month_robust: the number of days of the month (0: _split_dates called on its own)
    start_d,            \* _split_dates: start_d, as a day number
    end_d,              \* _split_dates: end_d
    chunks,             \* _split_dates: chunks
    cur,                \* _split_dates: cur
    windows,            \* _split_dates: the (start, end) pairs yielded so far
    strategies,         \* fetch_month_robust: the strategy ladder
    regular_days,       \* fetch_month_robust: the days of the month with rows of the game type asked for
    strategy,           \* fetch_month_robust: idx, the strategy being tried
    window,             \* fetch_month_robust: the place in strat of the window fetched next
    frames,             \* fetch_month_robust: frames, as (strategy, window) pairs
    last_err,           \* fetch_month_robust: last_err, as the (strategy, window) that raised
    failed,             \* fetch_month_robust: the strategies that have raised so far
    month_result,       \* fetch_month_robust: what it returned or raised
    old_files,          \* build_parquet_years: the months whose file was in out_dir before the first run
    months_with_rows,   \* build_parquet_years: the months for which fetch_month_robust returns rows
    parquet_files,      \* build_parquet_years: the months whose file exists
    run_no,             \* build_parquet_years: which run this is
    yr,                 \* build_parquet_years: yr
    mo,                 \* build_parquet_years: mo
    build_log           \* build_parquet_years: the fetches and writes made so far, all runs

vars == <<pc, pitch_df, result_df, runs, calls_in, pa_metrics_df, df, calls_df,
          impact_analysis, bad_call_counts, pa_table, clean_pas, baseline_stats, baseline_df,
          post_perf, merged_df, pa_df, min_pa, filtered_df,
          flow_in, scouting_report, raised, files, steps, outcome,
          raw_pitch_df, clean_pitch_df,
          written_details, csv_cells, loaded_details,
          targets_df, report_dict,
          force_redownload,
          max_retries, pause, attempt, provider_calls, sleeps, fetched,
          month_days, start_d, end_d, chunks, cur, windows, strategies,
          regular_days, strategy, window, frames, last_err, failed, month_result,
          old_files, months_with_rows, parquet_files, run_no, yr, mo, build_log>>

callVars  == <<pitch_df, result_df, runs>>
aggVars   == <<calls_in, pa_metrics_df>>
extVars   == <<df, calls_df, impact_analysis, bad_call_counts>>
baseVars  == <<pa_table, clean_pas, baseline_stats>>
scoreVars == <<baseline_df, post_perf, merged_df>>
qualVars  == <<pa_df, min_pa, filtered_df>>
flowVars  == <<flow_in, scouting_report, raised>>
ioVars    == <<files, steps, outcome>>
cleanVars == <<raw_pitch_df, clean_pitch_df>>
tripVars  == <<written_details, csv_cells, loaded_details>>
reportVars == <<targets_df, report_dict>>
fullVars  == <<force_redownload>>
fetchVars == <<max_retries, pause, attempt, provider_calls, sleeps, fetched>>
splitVars == <<month_days, start_d, end_d, chunks, cur, windows, strategies>>
monthVars == <<regular_days, strategy, window, frames, last_err, failed, month_result>>
buildVars == <<old_files, months_with_rows, parquet_files, run_no, yr, mo, build_log>>

\* The value a frame variable holds while its stage is not the one running.
Idle == <<>>

\* numpy's nan: the value of call_favors_batter for a correct call and of a
\* statistic that cannot be computed.
NaN == "nan"

\* np.where over [True/False, nan] yields a float column: 1.0, 0.0 or nan.
FloatTrue  == "1.0"
FloatFalse == "0.0"

(***************************************************************************)
(* Strings.  A Python str is modelled as the sequence of its code points;  *)
(* str comparison is lexicographic by code point, a proper prefix first.   *)
(***************************************************************************)
RECURSIVE Str(_)
Str(n) == IF n < 10 THEN <<48 + n>> ELSE Str(n \div 10) \o <<48 + (n % 10)>>

RECURSIVE StrLessFrom(_, _, _)
StrLessFrom(s, t, i) ==
    IF i > Len(t) THEN FALSE
    ELSE IF i > Len(s) THEN TRUE
    ELSE IF s[i] = t[i] THEN StrLessFrom(s, t, i + 1)
    ELSE s[i] < t[i]

StrLess(s, t) == StrLessFrom(s, t, 1)

StrLeq(s, t) == s = t \/ StrLess(s, t)

\* pd.to_datetime(...).astype(str) of a date, "YYYY-MM-DD".  All dates of the
\* model lie in one month, so its text is the same for all and is left out:
\* DateStr is the zero-padded day "DD".
DateStr(d) == <<48 + (d \div 10), 48 + (d % 10)>>

(***************************************************************************)
(* Call Corrector: StatcastProcessor.determine_correct_call                *)
(***************************************************************************)
StrikeZoneLeft   == -83
StrikeZoneRight  == 83
StrikeZoneTop    == 350
StrikeZoneBottom == 150

\* How far around each edge of the zone the input coordinates range.
EdgeSlack == 1

Descriptions == {"called_strike", "ball", "blocked_ball", "foul"}
SzBots == {StrikeZoneBottom, StrikeZoneBottom + 10}
SzTops == {StrikeZoneTop - 10, StrikeZoneTop}
PlateXs == {0} \cup {e + d : e \in {StrikeZoneLeft, StrikeZoneRight},
                              d \in (-EdgeSlack)..EdgeSlack}
PlateZs == {e + d : e \in SzBots \cup SzTops, d \in (-EdgeSlack)..EdgeSlack}

PitchRows ==
    [plate_x : PlateXs, plate_z : PlateZs, sz_bot : SzBots, sz_top : SzTops,
     description : Descriptions]

\* The mutant of InZone: the vertical bounds of the strike_zone dict
\* instead of the ones carried by the pitch.
InZoneFixedDefaults(row) ==
    /\ row.plate_x >= StrikeZoneLeft
    /\ row.plate_x <= StrikeZoneRight
    /\ row.plate_z >= StrikeZoneBottom
    /\ row.plate_z <= StrikeZoneTop

InZone(row) ==
    /\ row.plate_x >= StrikeZoneLeft
    /\ row.plate_x <= StrikeZoneRight
    /\ row.plate_z >= row.sz_bot
    /\ row.plate_z <= row.sz_top

\* The mutant of CorrectCall: blocked_ball not taken as a ball.
CorrectCallBallOnly(description, in_zone) ==
    \/ description = "called_strike" /\ in_zone
    \/ description = "ball" /\ ~in_zone

\* np.select(conditions, [True, True], default=False)
CorrectCall(description, in_zone) ==
    \/ description = "called_strike" /\ in_zone
    \/ description \in {"ball", "blocked_ball"} /\ ~in_zone

\* The mutant of CallFavorsBatter: the inner np.where without the outer one.
CallFavorsBatterAlways(description, in_zone, correct_call) ==
    IF description = "called_strike" /\ ~in_zone THEN FloatFalse ELSE FloatTrue

\* np.where(~correct, np.where(strike & ~in_zone, False, True), np.nan)
CallFavorsBatter(description, in_zone, correct_call) ==
    IF ~correct_call
    THEN IF description = "called_strike" /\ ~in_zone THEN FloatFalse ELSE FloatTrue
    ELSE NaN

LabelRow(row) ==
    LET in_zone == InZone(row)
        correct_call == CorrectCall(row.description, in_zone)
    IN  [plate_x |-> row.plate_x, plate_z |-> row.plate_z,
         sz_bot |-> row.sz_bot, sz_top |-> row.sz_top,
         description |-> row.description,
         in_zone |-> in_zone,
         correct_call |-> correct_call,
         call_favors_batter |->
             CallFavorsBatter(row.description, in_zone, correct_call)]

DetermineCorrectCall(frame) == [i \in DOMAIN frame |-> LabelRow(frame[i])]

InitCall ==
    /\ old_files = {} /\ months_with_rows = {} /\ parquet_files = {} /\ run_no = 0 /\ yr = 0 /\ mo = 0 /\ build_log = Idle
    /\ regular_days = {} /\ strategy = 0 /\ window = 0 /\ frames = Idle /\ last_err = Idle /\ failed = {} /\ month_result = Idle
    /\ month_days = 0 /\ start_d = 0 /\ end_d = 0 /\ chunks = 0 /\ cur = 0 /\ windows = Idle /\ strategies = Idle
    /\ max_retries = 0 /\ pause = 0 /\ attempt = 0 /\ provider_calls = Idle /\ sleeps = Idle /\ fetched = Idle
    /\ force_redownload = FALSE
    /\ targets_df = Idle /\ report_dict = Idle
    /\ written_details = Idle /\ csv_cells = Idle /\ loaded_details = Idle
    /\ raw_pitch_df = Idle /\ clean_pitch_df = Idle
    /\ pc = "call_input"
    /\ pitch_df \in {<<row>> : row \in PitchRows}
    /\ result_df = Idle
    /\ runs = 0
    /\ pa_df = Idle /\ min_pa = 0 /\ filtered_df = Idle
    /\ flow_in = Idle /\ scouting_report = Idle /\ raised = FALSE
    /\ files = {} /\ steps = <<>> /\ outcome = "none"
    /\ calls_in = Idle /\ pa_metrics_df = Idle
    /\ df = Idle /\ calls_df = Idle /\ impact_analysis = Idle
    /\ bad_call_counts = Idle
    /\ pa_table = Idle /\ clean_pas = Idle /\ baseline_stats = Idle
    /\ baseline_df = Idle /\ post_perf = Idle /\ merged_df = Idle

\* determine_correct_call(df)
RunDetermineCorrectCall ==
    /\ pc = "call_input"
    /\ result_df' = DetermineCorrectCall(pitch_df)
    /\ runs' = 1
    /\ pc' = "call_labelled"
    /\ UNCHANGED <<pitch_df, aggVars, extVars, baseVars, scoreVars, qualVars, flowVars, ioVars, cleanVars, tripVars, reportVars, fullVars, fetchVars, splitVars, monthVars, buildVars>>

\* determine_correct_call run once more, on the frame it returned
RerunDetermineCorrectCall ==
    /\ pc = "call_labelled"
    /\ runs = 1
    /\ result_df' = DetermineCorrectCall(result_df)
    /\ runs' = 2
    /\ UNCHANGED <<pc, pitch_df, aggVars, extVars, baseVars, scoreVars, qualVars, flowVars, ioVars, cleanVars, tripVars, reportVars, fullVars, fetchVars, splitVars, monthVars, buildVars>>

NextCall == RunDetermineCorrectCall \/ RerunDetermineCorrectCall

SpecCall == InitCall /\ [][NextCall]_vars

Labelled == pc = "call_labelled"

\* C7: correct_call is true iff (called strike and in_zone) or (ball or
\* blocked ball and not in_zone); a called strike at x = 0 with z inside
\* [sz_bot, sz_top] is correct and a ball at the same place is incorrect.
C7_CorrectCallIff ==
    Labelled =>
        \A i \in DOMAIN result_df :
            LET r == result_df[i] IN
            /\ r.correct_call <=>
                  \/ r.description = "called_strike" /\ r.in_zone
                  \/ r.description \in {"ball", "blocked_ball"} /\ ~r.in_zone
            /\ (r.plate_x = 0 /\ r.sz_bot <= r.plate_z /\ r.plate_z <= r.sz_top) =>
                  /\ r.description = "called_strike" => r.correct_call
                  /\ r.description \in {"ball", "blocked_ball"} => ~r.correct_call

C7_Witness ==
    /\ Labelled
    /\ \E i \in DOMAIN result_df :
          /\ result_df[i].description = "blocked_ball"
          /\ result_df[i].plate_x = 0
          /\ result_df[i].plate_z > result_df[i].sz_top
          /\ result_df[i].correct_call

\* C8: favors_batter is defined iff correct_call is false; it is false for a
\* strike call on a pitch out of the zone, true for a ball call on a pitch in it.
C8_FavorsBatterDefinedIffIncorrect ==
    Labelled =>
        \A i \in DOMAIN result_df :
            LET r == result_df[i] IN
            /\ (r.call_favors_batter # NaN) <=> ~r.correct_call
            /\ (r.description = "called_strike" /\ ~r.in_zone)
                  => r.call_favors_batter = FloatFalse
            /\ (r.description \in {"ball", "blocked_ball"} /\ r.in_zone)
                  => r.call_favors_batter = FloatTrue

C8_Witness ==
    /\ Labelled
    /\ \E i \in DOMAIN result_df :
          /\ result_df[i].description = "called_strike"
          /\ ~result_df[i].in_zone
          /\ result_df[i].call_favors_batter = FloatFalse

\* C9: in_zone is true iff -0.83 <= plate_x <= 0.83 and sz_bot <= plate_z <=
\* sz_top, all bounds inclusive, the vertical ones the pitch's own; a second
\* run of determine_correct_call yields the same labels.
C9_InZoneFunctionOfPitch ==
    Labelled =>
        \A i \in DOMAIN result_df :
            LET r == result_df[i]
                p == pitch_df[i] IN
            /\ r.in_zone <=>
                  /\ -83 <= p.plate_x /\ p.plate_x <= 83
                  /\ p.sz_bot <= p.plate_z /\ p.plate_z <= p.sz_top
            /\ runs = 2 => result_df = DetermineCorrectCall(pitch_df)

C9_Witness ==
    /\ Labelled
    /\ runs = 2
    /\ \E i \in DOMAIN result_df :
          /\ pitch_df[i].plate_x = 83
          /\ pitch_df[i].plate_z = pitch_df[i].sz_bot
          /\ pitch_df[i].sz_bot # StrikeZoneBottom
          /\ result_df[i].in_zone

(***************************************************************************)
(* PA Aggregator: create_plate_appearance_groups and calculate_pa_metrics  *)
(***************************************************************************)
\* Longest pitch table handed in, and highest pitch number of an at-bat.
MaxRows  == 3
MaxPitch == 2

\* (game date, batter, at-bat number) of the at-bats the pitch rows come from.
AtBatKeys == {<<1, 1, 12>>, <<1, 11, 2>>, <<2, 1, 12>>}

\* The labels determine_correct_call gives a called strike in the zone
\* (correct) and one out of it (incorrect, against the batter).
CallLabels ==
    {[description |-> "called_strike", in_zone |-> z,
      correct_call |-> CorrectCall("called_strike", z),
      call_favors_batter |->
          CallFavorsBatter("called_strike", z, CorrectCall("called_strike", z))] :
        z \in BOOLEAN}

CorrectedRows ==
    {[game_date |-> k[1], batter |-> k[2], at_bat_number |-> k[3],
      pitch_number |-> n, description |-> c.description, in_zone |-> c.in_zone,
      correct_call |-> c.correct_call,
      call_favors_batter |-> c.call_favors_batter] :
        k \in AtBatKeys, n \in 1..MaxPitch, c \in CallLabels}

SeqsUpTo(S, n) == UNION {[1..m -> S] : m \in 1..n}

\* The sequence seq with every element evaluated once (the value is seq).
Rows(seq) == SelectSeq(seq, LAMBDA r : TRUE)

\* DataFrame.sort_values: the rows of frame in the order given by before
\* (before[i][j] iff row i sorts strictly before row j), rows that compare
\* equal in the order they had.
StableSort(frame, before) ==
    LET n == Len(frame)
        pos == Rows([i \in 1..n |->
                   1 + Cardinality({j \in 1..n :
                           \/ before[j][i]
                           \/ ~before[i][j] /\ j < i})])
    IN  Rows([k \in 1..n |-> frame[CHOOSE i \in 1..n : pos[i] = k]])

\* The mutant of PaId: the game date left out of the id.
PaIdWithoutDate(game_date, batter, at_bat_number) ==
    Str(batter) \o <<95>> \o Str(at_bat_number)

\* game_date.astype(str) + '_' + batter.astype(str) + '_' + at_bat_number.astype(str)
PaId(game_date, batter, at_bat_number) ==
    DateStr(game_date) \o <<95>> \o Str(batter) \o <<95>> \o Str(at_bat_number)

PitchBefore(a, b) ==
    \/ a.game_date < b.game_date
    \/ a.game_date = b.game_date /\ a.batter < b.batter
    \/ a.game_date = b.game_date /\ a.batter = b.batter
          /\ a.at_bat_number < b.at_bat_number
    \/ a.game_date = b.game_date /\ a.batter = b.batter
          /\ a.at_bat_number = b.at_bat_number /\ a.pitch_number < b.pitch_number

CreatePlateAppearanceGroups(frame) ==
    LET df_sorted == StableSort(frame,
            Rows([i \in DOMAIN frame |->
                Rows([j \in DOMAIN frame |-> PitchBefore(frame[i], frame[j])])]))
    IN  Rows([i \in DOMAIN df_sorted |->
            [game_date |-> df_sorted[i].game_date,
             batter |-> df_sorted[i].batter,
             at_bat_number |-> df_sorted[i].at_bat_number,
             pitch_number |-> df_sorted[i].pitch_number,
             description |-> df_sorted[i].description,
             in_zone |-> df_sorted[i].in_zone,
             correct_call |-> df_sorted[i].correct_call,
             call_favors_batter |-> df_sorted[i].call_favors_batter,
             pa_id |-> PaId(df_sorted[i].game_date, df_sorted[i].batter,
                            df_sorted[i].at_bat_number)]])

\* The mutant of PriorIncorrect: the pitch itself counted too.
PriorIncorrectInclusive(pa_data, pitch) ==
    Cardinality({j \in DOMAIN pa_data :
        pa_data[j].pitch_number <= pitch.pitch_number /\ ~pa_data[j].correct_call})

\* len(pa_data[(pa_data['pitch_number'] < pitch['pitch_number']) & ~correct_call])
PriorIncorrect(pa_data, pitch) ==
    Cardinality({j \in DOMAIN pa_data :
        pa_data[j].pitch_number < pitch.pitch_number /\ ~pa_data[j].correct_call})

PitchNumberBefore(a, b) == a.pitch_number < b.pitch_number
IsIncorrect(pitch) == ~pitch.correct_call

\* One iteration of the loop over df.groupby('pa_id').
PaInfo(pa_id, pa_group) ==
    LET pa_data == StableSort(pa_group,
            Rows([i \in DOMAIN pa_group |->
                Rows([j \in DOMAIN pa_group |->
                    PitchNumberBefore(pa_group[i], pa_group[j])])]))
        incorrect_calls == SelectSeq(pa_data, IsIncorrect)
    IN  [pa_id |-> pa_id,
         batter |-> pa_data[1].batter,
         game_date |-> pa_data[1].game_date,
         total_pitches |-> Len(pa_data),
         total_incorrect_calls |-> Len(incorrect_calls),
         incorrect_calls_favoring_batter |->
             Len(SelectSeq(incorrect_calls, LAMBDA r : r.call_favors_batter = FloatTrue)),
         incorrect_calls_favoring_pitcher |->
             Len(SelectSeq(incorrect_calls, LAMBDA r : r.call_favors_batter = FloatFalse)),
         incorrect_call_details |->
             Rows([k \in DOMAIN incorrect_calls |->
                 [pitch_number |-> incorrect_calls[k].pitch_number,
                  favors_batter |-> incorrect_calls[k].call_favors_batter,
                  prior_incorrect_calls |-> PriorIncorrect(pa_data, incorrect_calls[k]),
                  description |-> incorrect_calls[k].description,
                  in_zone |-> incorrect_calls[k].in_zone]])]

\* groupby('pa_id') yields the groups in ascending order of the key.
SortedIds(ids) ==
    LET ranked == {<<Cardinality({o \in ids : StrLess(o, id)}), id>> : id \in ids}
    IN  Rows([k \in 1..Cardinality(ids) |->
                (CHOOSE p \in ranked : p[1] = k - 1)[2]])

PaGroup(frame, pa_id) == SelectSeq(frame, LAMBDA r : r.pa_id = pa_id)

CalculatePaMetrics(frame) ==
    LET ids == SortedIds({frame[i].pa_id : i \in DOMAIN frame})
    IN  Rows([g \in DOMAIN ids |-> PaInfo(ids[g], PaGroup(frame, ids[g]))])

InitAgg ==
    /\ old_files = {} /\ months_with_rows = {} /\ parquet_files = {} /\ run_no = 0 /\ yr = 0 /\ mo = 0 /\ build_log = Idle
    /\ regular_days = {} /\ strategy = 0 /\ window = 0 /\ frames = Idle /\ last_err = Idle /\ failed = {} /\ month_result = Idle
    /\ month_days = 0 /\ start_d = 0 /\ end_d = 0 /\ chunks = 0 /\ cur = 0 /\ windows = Idle /\ strategies = Idle
    /\ max_retries = 0 /\ pause = 0 /\ attempt = 0 /\ provider_calls = Idle /\ sleeps = Idle /\ fetched = Idle
    /\ force_redownload = FALSE
    /\ targets_df = Idle /\ report_dict = Idle
    /\ written_details = Idle /\ csv_cells = Idle /\ loaded_details = Idle
    /\ raw_pitch_df = Idle /\ clean_pitch_df = Idle
    /\ pc = "agg_input"
    /\ calls_in \in SeqsUpTo(CorrectedRows, MaxRows)
    /\ pa_metrics_df = Idle
    /\ pitch_df = Idle /\ result_df = Idle /\ runs = 0
    /\ pa_df = Idle /\ min_pa = 0 /\ filtered_df = Idle
    /\ flow_in = Idle /\ scouting_report = Idle /\ raised = FALSE
    /\ files = {} /\ steps = <<>> /\ outcome = "none"
    /\ df = Idle /\ calls_df = Idle /\ impact_analysis = Idle
    /\ bad_call_counts = Idle
    /\ pa_table = Idle /\ clean_pas = Idle /\ baseline_stats = Idle
    /\ baseline_df = Idle /\ post_perf = Idle /\ merged_df = Idle

\* calculate_pa_metrics(create_plate_appearance_groups(calls_df))
AggregatePlateAppearances ==
    /\ pc = "agg_input"
    /\ pa_metrics_df' = CalculatePaMetrics(CreatePlateAppearanceGroups(calls_in))
    /\ pc' = "agg_done"
    /\ UNCHANGED <<calls_in, callVars, extVars, baseVars, scoreVars, qualVars, flowVars, ioVars, cleanVars, tripVars, reportVars, fullVars, fetchVars, splitVars, monthVars, buildVars>>

NextAgg == AggregatePlateAppearances

SpecAgg == InitAgg /\ [][NextAgg]_vars

Aggregated == pc = "agg_done"

InputTriples ==
    {<<calls_in[i].game_date, calls_in[i].batter, calls_in[i].at_bat_number>> :
        i \in DOMAIN calls_in}

\* The at-bat a PA row stands for: its date and batter columns, and the
\* at-bat number that is the decimal text after the last '_' of its pa_id.
EndsWithAtBat(pa_id, n) ==
    LET s == Str(n)
        L == Len(pa_id)
        m == Len(s)
    IN  /\ L > m
        /\ pa_id[L - m] = 95
        /\ \A j \in 1..m : pa_id[L - m + j] = s[j]

RowsOfTriple(t) ==
    {i \in DOMAIN pa_metrics_df :
        /\ pa_metrics_df[i].game_date = t[1]
        /\ pa_metrics_df[i].batter = t[2]
        /\ EndsWithAtBat(pa_metrics_df[i].pa_id, t[3])}

\* C6: whatever the order of the pitch rows and however often a row occurs,
\* the PA table has exactly one row per distinct (game date, batter, at-bat
\* number) of the input: none omitted, none twice, none invented.
C6_OneRowPerTriple ==
    Aggregated =>
        /\ \A t \in InputTriples : Cardinality(RowsOfTriple(t)) = 1
        /\ \A i \in DOMAIN pa_metrics_df : \E t \in InputTriples : i \in RowsOfTriple(t)
        /\ Len(pa_metrics_df) = Cardinality(InputTriples)

C6_Witness ==
    /\ Aggregated
    /\ \E i, j \in DOMAIN calls_in : i < j /\ calls_in[i] = calls_in[j]
    /\ \E i, j \in DOMAIN calls_in :
          i < j /\ calls_in[i].game_date > calls_in[j].game_date
    /\ Len(pa_metrics_df) = 2

\* C10: prior_incorrect_calls of an entry is the number of incorrect calls of
\* the same PA with a strictly lower pitch number; an entry at pitch 1 and the
\* first entry of a list have 0.
C10_PriorIncorrectCount ==
    Aggregated =>
        \A i \in DOMAIN pa_metrics_df :
            LET details == pa_metrics_df[i].incorrect_call_details
                t == CHOOSE t \in InputTriples : i \in RowsOfTriple(t)
            IN  \A k \in DOMAIN details :
                    /\ details[k].prior_incorrect_calls =
                          Cardinality({j \in DOMAIN details :
                              details[j].pitch_number < details[k].pitch_number})
                    /\ details[k].prior_incorrect_calls =
                          Cardinality({j \in DOMAIN calls_in :
                              /\ <<calls_in[j].game_date, calls_in[j].batter,
                                   calls_in[j].at_bat_number>> = t
                              /\ ~calls_in[j].correct_call
                              /\ calls_in[j].pitch_number < details[k].pitch_number})
                    /\ details[k].pitch_number = 1 => details[k].prior_incorrect_calls = 0
                    /\ k = 1 => details[k].prior_incorrect_calls = 0

C10_Witness ==
    /\ Aggregated
    /\ \E i \in DOMAIN pa_metrics_df :
          LET details == pa_metrics_df[i].incorrect_call_details
          IN  /\ Len(details) = 2
              /\ pa_metrics_df[i].total_pitches = 3
              /\ details[1].prior_incorrect_calls = 0
              /\ details[2].prior_incorrect_calls = 1

(***************************************************************************)
(* Post-Bad-Call Extractor: analyze_post_call_performance and              *)
(* analyze_performance_after_bad_calls                                     *)
(***************************************************************************)
\* .head(10): the number of subsequent PAs looked at.
WindowSize == 10

\* Game dates of the season; PAs of a sparse table; PAs a dense table may
\* lack; adverse events of a table.
MaxDate    == 6
MaxSparse  == 3
MaxMissing == 0
MaxEvents  == 2

\* (game date, batter, at-bat number) of the PAs of the batter under study,
\* who bats 5th and 23rd in a game, and of another batter.
AtBatNumbers == {5, 23}
BatterKeys == {<<d, 1, a>> : d \in 1..MaxDate, a \in AtBatNumbers}
OtherKeys  == {<<2, 2, 5>>}

KeyLeq(k, l) ==
    \/ k[1] < l[1]
    \/ k[1] = l[1] /\ k[2] < l[2]
    \/ k[1] = l[1] /\ k[2] = l[2] /\ k[3] <= l[3]

\* The PAs of a processed table: few of them, or nearly all of the season.
KeySets ==
    {S \in SUBSET BatterKeys :
        \/ Cardinality(S) <= MaxSparse
        \/ Cardinality(S) >= Cardinality(BatterKeys) - MaxMissing}

\* The PAs the adverse events of a table belong to, one entry per event.
EventBags(S) ==
    {<<>>} \cup
    {t \in SeqsUpTo(S, MaxEvents) :
        \A i \in 1..(Len(t) - 1) : KeyLeq(t[i], t[i + 1])}

\* incorrect_call_details of a PA with m incorrect calls, all called strikes
\* out of the zone.
AdverseDetails(m) ==
    Rows([k \in 1..m |->
        [pitch_number |-> k, favors_batter |-> FloatFalse,
         prior_incorrect_calls |-> k - 1, description |-> "called_strike",
         in_zone |-> FALSE]])

\* The PAs that open with a ball called in the zone, an incorrect call that
\* favors the batter: those of the first game date and the other batter's.
FavoredKeys == OtherKeys \cup {k \in BatterKeys : k[1] = 1}

FavoringCall ==
    [pitch_number |-> 1, favors_batter |-> FloatTrue,
     prior_incorrect_calls |-> 0, description |-> "ball", in_zone |-> TRUE]

\* incorrect_call_details of such a PA with m adverse calls after the first pitch.
FavoringThenAdverseDetails(m) ==
    <<FavoringCall>> \o
    Rows([k \in 1..m |->
        [pitch_number |-> k + 1, favors_batter |-> FloatFalse,
         prior_incorrect_calls |-> k, description |-> "called_strike",
         in_zone |-> FALSE]])

\* The row calculate_pa_metrics writes for a PA, as load_processed_data
\* reads it back: game_date is the text of the date.
PaRow(k, m) ==
    [pa_id |-> PaId(k[1], k[2], k[3]), batter |-> k[2],
     game_date |-> DateStr(k[1]),
     incorrect_call_details |->
         IF k \in FavoredKeys THEN FavoringThenAdverseDetails(m)
         ELSE AdverseDetails(m)]

\* The processed table: its rows in ascending pa_id, the order of groupby.
ProcessedTable(S, t) ==
    LET rows == {PaRow(k, Cardinality({i \in DOMAIN t : t[i] = k})) :
                    k \in S \cup OtherKeys}
        ranked == {<<Cardinality({o \in rows : StrLess(o.pa_id, r.pa_id)}), r>> :
                    r \in rows}
    IN  Rows([g \in 1..Cardinality(rows) |->
                (CHOOSE p \in ranked : p[1] = g - 1)[2]])

RECURSIVE ConcatAll(_)
ConcatAll(seqs) ==
    IF seqs = <<>> THEN <<>> ELSE Head(seqs) \o ConcatAll(Tail(seqs))

\* Truth value of a float: only 0.0 is false (nan is true).
Truthy(v) == v # FloatFalse

\* The mutant of CallRecords: a call_record for every incorrect call.
CallRecordsAllIncorrect(pa) ==
    LET against == pa.incorrect_call_details
    IN  Rows([k \in DOMAIN against |->
            [batter |-> pa.batter, pa_id |-> pa.pa_id, game_date |-> pa.game_date,
             pitch_number_of_bad_call |-> against[k].pitch_number,
             prior_incorrect_in_pa |-> against[k].prior_incorrect_calls,
             bad_call_type |-> against[k].description]])

\* The call_record rows of one PA: one per detail that did not favor the batter.
CallRecords(pa) ==
    LET against == SelectSeq(pa.incorrect_call_details,
                             LAMBDA c : ~Truthy(c.favors_batter))
    IN  Rows([k \in DOMAIN against |->
            [batter |-> pa.batter, pa_id |-> pa.pa_id, game_date |-> pa.game_date,
             pitch_number_of_bad_call |-> against[k].pitch_number,
             prior_incorrect_in_pa |-> against[k].prior_incorrect_calls,
             bad_call_type |-> against[k].description]])

\* sort_values(['batter', 'game_date', 'pa_id'])
BatterDateIdBefore(a, b) ==
    \/ a.batter < b.batter
    \/ a.batter = b.batter /\ StrLess(a.game_date, b.game_date)
    \/ a.batter = b.batter /\ a.game_date = b.game_date /\ StrLess(a.pa_id, b.pa_id)

SortByBatterDateId(frame) ==
    StableSort(frame,
        Rows([i \in DOMAIN frame |->
            Rows([j \in DOMAIN frame |-> BatterDateIdBefore(frame[i], frame[j])])]))

AnalyzePostCallPerformance(frame) ==
    SortByBatterDateId(
        ConcatAll(Rows([i \in DOMAIN frame |-> CallRecords(frame[i])])))

\* pd.to_datetime of a date text: the day of the month of "DD".
DayOf(date) == (date[1] - 48) * 10 + (date[2] - 48)

\* The filter of lines 143-147 and 150-153.
IsSubsequent(pa, bad_call) ==
    /\ pa.batter = bad_call.batter
    /\ StrLeq(bad_call.game_date, pa.game_date)
    /\ StrLess(bad_call.pa_id, pa.pa_id)

\* One iteration of the loop over calls_sorted.  following holds the rows of
\* df_sorted that pass the filter of lines 143-146; lines 150-155 count the
\* rows that pass the same filter and have pa_id <= next_pa's.
ImpactRecords(df_sorted, bad_call) ==
    LET following == SelectSeq(df_sorted, LAMBDA pa : IsSubsequent(pa, bad_call))
        subsequent_pas ==
            SubSeq(following, 1,
                   IF Len(following) < WindowSize THEN Len(following) ELSE WindowSize)
    IN  Rows([n \in DOMAIN subsequent_pas |->
            [batter |-> bad_call.batter,
             bad_call_pa_id |-> bad_call.pa_id,
             bad_call_date |-> bad_call.game_date,
             bad_call_type |-> bad_call.bad_call_type,
             subsequent_pa_id |-> subsequent_pas[n].pa_id,
             subsequent_pa_date |-> subsequent_pas[n].game_date,
             pas_after_bad_call |->
                 Cardinality({j \in DOMAIN following :
                     StrLeq(following[j].pa_id, subsequent_pas[n].pa_id)}),
             days_since_bad_call |->
                 DayOf(subsequent_pas[n].game_date) - DayOf(bad_call.game_date)]])

ImpactOfCalls(df_sorted, calls_sorted) ==
    ConcatAll(Rows([i \in DOMAIN calls_sorted |->
                      ImpactRecords(df_sorted, calls_sorted[i])]))

AnalyzePerformanceAfterBadCalls(frame, calls) ==
    ImpactOfCalls(SortByBatterDateId(frame), SortByBatterDateId(calls))

InitExt ==
    /\ old_files = {} /\ months_with_rows = {} /\ parquet_files = {} /\ run_no = 0 /\ yr = 0 /\ mo = 0 /\ build_log = Idle
    /\ regular_days = {} /\ strategy = 0 /\ window = 0 /\ frames = Idle /\ last_err = Idle /\ failed = {} /\ month_result = Idle
    /\ month_days = 0 /\ start_d = 0 /\ end_d = 0 /\ chunks = 0 /\ cur = 0 /\ windows = Idle /\ strategies = Idle
    /\ max_retries = 0 /\ pause = 0 /\ attempt = 0 /\ provider_calls = Idle /\ sleeps = Idle /\ fetched = Idle
    /\ force_redownload = FALSE
    /\ targets_df = Idle /\ report_dict = Idle
    /\ written_details = Idle /\ csv_cells = Idle /\ loaded_details = Idle
    /\ raw_pitch_df = Idle /\ clean_pitch_df = Idle
    /\ pc = "ext_loaded"
    /\ \E S \in KeySets : \E t \in EventBags(S) : df = ProcessedTable(S, t)
    /\ calls_df = Idle /\ impact_analysis = Idle /\ bad_call_counts = Idle
    /\ pitch_df = Idle /\ result_df = Idle /\ runs = 0
    /\ pa_df = Idle /\ min_pa = 0 /\ filtered_df = Idle
    /\ flow_in = Idle /\ scouting_report = Idle /\ raised = FALSE
    /\ files = {} /\ steps = <<>> /\ outcome = "none"
    /\ calls_in = Idle /\ pa_metrics_df = Idle
    /\ pa_table = Idle /\ clean_pas = Idle /\ baseline_stats = Idle
    /\ baseline_df = Idle /\ post_perf = Idle /\ merged_df = Idle

\* run_full_analysis: calls_df = self.analyze_post_call_performance(df)
RunAnalyzePostCallPerformance ==
    /\ pc = "ext_loaded"
    /\ calls_df' = AnalyzePostCallPerformance(df)
    /\ pc' = "ext_calls"
    /\ UNCHANGED <<df, impact_analysis, bad_call_counts, callVars, aggVars,
                   baseVars, scoreVars, qualVars, flowVars, ioVars, cleanVars, tripVars, reportVars, fullVars, fetchVars, splitVars, monthVars, buildVars>>

\* run_full_analysis: analyze_performance_after_bad_calls(df, calls_df),
\* reached only with a non-empty calls_df
RunAnalyzePerformanceAfterBadCalls ==
    /\ pc = "ext_calls"
    /\ calls_df # <<>>
    /\ impact_analysis' = AnalyzePerformanceAfterBadCalls(df, calls_df)
    /\ pc' = "ext_done"
    /\ UNCHANGED <<df, calls_df, bad_call_counts, callVars, aggVars, baseVars,
                   scoreVars, qualVars, flowVars, ioVars, cleanVars, tripVars, reportVars, fullVars, fetchVars, splitVars, monthVars, buildVars>>

\* calculate_psychological_impact_scores, lines 231-232:
\* impact_df.groupby('batter')['bad_call_pa_id'].nunique(), one row per batter
\* of impact_df, by batter.
BadCallCounts(impact_df) ==
    LET batters == {impact_df[n].batter : n \in DOMAIN impact_df}
    IN  Rows([g \in 1..Cardinality(batters) |->
            LET b == CHOOSE x \in batters :
                         Cardinality({y \in batters : y < x}) = g - 1
            IN  [batter |-> b,
                 total_bad_calls_experienced |->
                     Cardinality({impact_df[n].bad_call_pa_id :
                         n \in {m \in DOMAIN impact_df : impact_df[m].batter = b}})]])

\* run_full_analysis hands the records to calculate_psychological_impact_scores
\* (line 343), reached only with a non-empty impact_analysis_df; the column is
\* merged into the scored rows on batter (line 239).
RunCountBadCalls ==
    /\ pc = "ext_done"
    /\ impact_analysis # <<>>
    /\ bad_call_counts' = BadCallCounts(impact_analysis)
    /\ pc' = "ext_counted"
    /\ UNCHANGED <<df, calls_df, impact_analysis, callVars, aggVars, baseVars,
                   scoreVars, qualVars, flowVars, ioVars, cleanVars, tripVars, reportVars, fullVars, fetchVars, splitVars, monthVars, buildVars>>

NextExt ==
    \/ RunAnalyzePostCallPerformance
    \/ RunAnalyzePerformanceAfterBadCalls
    \/ RunCountBadCalls

SpecExt == InitExt /\ [][NextExt]_vars

Extracted == pc = "ext_done"

\* The at-bat number a pa_id was built from.
AtBatOf(pa_id) == CHOOSE n \in AtBatNumbers : EndsWithAtBat(pa_id, n)

\* Playing order of two PAs of one batter, each given as <<date text, pa_id>>:
\* later game date, or same game date and greater at-bat number.
PlayedAfter(q, p) ==
    \/ DayOf(q[1]) > DayOf(p[1])
    \/ DayOf(q[1]) = DayOf(p[1]) /\ AtBatOf(q[2]) > AtBatOf(p[2])

\* The PAs of the batter of bad_call played after the PA of bad_call.
LaterPAs(bad_call) ==
    {j \in DOMAIN df :
        /\ df[j].batter = bad_call.batter
        /\ PlayedAfter(<<df[j].game_date, df[j].pa_id>>,
                       <<bad_call.game_date, bad_call.pa_id>>)}

\* How many of them are played before PA number j of the table.
LaterPAsBefore(bad_call, j) ==
    Cardinality({i \in LaterPAs(bad_call) :
        PlayedAfter(<<df[j].game_date, df[j].pa_id>>, <<df[i].game_date, df[i].pa_id>>)})

\* C1: every PA emitted for an adverse event in PA P of batter B is a PA of B
\* played after P (later date, or same date and greater at-bat number), the
\* emitted PAs are the earliest such PAs (up to 10), and neither P nor a PA
\* played before P is emitted: pa_id order agrees with playing order.
C1_SubsequentInPlayingOrder ==
    Extracted =>
        /\ \A n \in DOMAIN impact_analysis :
              LET r == impact_analysis[n] IN
              /\ \E j \in DOMAIN df :
                    /\ df[j].pa_id = r.subsequent_pa_id
                    /\ df[j].batter = r.batter
              /\ PlayedAfter(<<r.subsequent_pa_date, r.subsequent_pa_id>>,
                             <<r.bad_call_date, r.bad_call_pa_id>>)
        /\ \A c \in DOMAIN calls_df :
              \A j \in LaterPAs(calls_df[c]) :
                  LaterPAsBefore(calls_df[c], j) < WindowSize <=>
                      \E n \in DOMAIN impact_analysis :
                          /\ impact_analysis[n].bad_call_pa_id = calls_df[c].pa_id
                          /\ impact_analysis[n].subsequent_pa_id = df[j].pa_id

\* The adverse events of the PA with this pa_id.
EventsOf(pa_id) == {c \in DOMAIN calls_df : calls_df[c].pa_id = pa_id}

\* Part of C2 that does not depend on the order of the PAs: every position is
\* in 1..10, a record with position v > 1 directly follows the record with
\* position v - 1 of the same event, and a PA with m adverse events starts at
\* most m runs.
PositionsAreRuns ==
    Extracted =>
        /\ \A n \in DOMAIN impact_analysis :
              LET r == impact_analysis[n] IN
              /\ r.pas_after_bad_call \in 1..WindowSize
              /\ r.pas_after_bad_call > 1 =>
                    /\ n > 1
                    /\ impact_analysis[n - 1].bad_call_pa_id = r.bad_call_pa_id
                    /\ impact_analysis[n - 1].pas_after_bad_call = r.pas_after_bad_call - 1
                    /\ impact_analysis[n - 1].subsequent_pa_id # r.subsequent_pa_id
        /\ \A j \in DOMAIN df :
              Cardinality({n \in DOMAIN impact_analysis :
                  /\ impact_analysis[n].bad_call_pa_id = df[j].pa_id
                  /\ impact_analysis[n].pas_after_bad_call = 1})
                <= Cardinality(EventsOf(df[j].pa_id))

\* C2: an adverse event emits at most 10 records, their pas_after_bad_call
\* are 1, 2, ..., k in the order the PAs were played, each once, and an event
\* with no later PA emits no record.
C2_PositionsOneToK ==
    /\ PositionsAreRuns
    /\ Extracted =>
          /\ \A n \in DOMAIN impact_analysis :
                impact_analysis[n].pas_after_bad_call > 1 =>
                    PlayedAfter(<<impact_analysis[n].subsequent_pa_date,
                                  impact_analysis[n].subsequent_pa_id>>,
                                <<impact_analysis[n - 1].subsequent_pa_date,
                                  impact_analysis[n - 1].subsequent_pa_id>>)
          /\ \A c \in DOMAIN calls_df :
                LaterPAs(calls_df[c]) = {} =>
                    \A n \in DOMAIN impact_analysis :
                        impact_analysis[n].bad_call_pa_id # calls_df[c].pa_id

\* ---------------------------------------------------------------------------
\* Impact Scorer: UmpireImpactAnalyzer.calculate_psychological_impact_scores.
\* wOBA means and standard deviations are integers in units of 0.0001 (the
\* aggregates are rounded to 4 decimals).  baseline_df is a table as
\* calculate_baseline_performance lays it out (one row per batter, by batter);
\* a caller may hand in rows with fewer than 50 clean PAs.  post_perf is
\* post_bad_call_performance, the per-batter aggregate of impact_df.  The
\* column total_bad_calls_experienced, which no later line reads, is left out.
\* ---------------------------------------------------------------------------

MinCleanPAs == 50
MinPostBadCalls == 20
CountSlack == 1

Batters == {1, 2}
CleanCounts == (MinCleanPAs - CountSlack)..(MinCleanPAs + CountSlack)
PostCounts == (MinPostBadCalls - CountSlack)..(MinPostBadCalls + CountSlack)
Stds == {0, 500}
BaselineMeans == {3400}
PostWobaMeans == {3000, 3450}
PostXwobaMeans == {3000, 3600}

\* The batter of 60 clean PAs with mean xwOBA 0.340 (deviation 0.05) and of 25
\* post-bad-call PAs with mean xwOBA 0.300 (deviation 0.05).
ScenarioBaselineRow(b) ==
    [batter |-> b, baseline_woba_mean |-> 3400, baseline_woba_std |-> 500,
     clean_pa_count |-> 60, baseline_xwoba_mean |-> 3400]
ScenarioPostRow(b) ==
    [batter |-> b, post_bad_call_woba_mean |-> 3000, post_bad_call_woba_std |-> 500,
     post_bad_call_count |-> 25, post_bad_call_xwoba_mean |-> 3000]

\* The rows a batter can have in baseline_df: none or one.
BaselineRows(b) ==
    {<<>>, <<ScenarioBaselineRow(b)>>} \cup
    {<<[batter |-> b, baseline_woba_mean |-> m, baseline_woba_std |-> sd,
        clean_pa_count |-> n, baseline_xwoba_mean |-> m]>> :
        m \in BaselineMeans, sd \in Stds, n \in CleanCounts}

\* The rows a batter can have in post_bad_call_performance: none or one.
PostRows(b) ==
    {<<>>, <<ScenarioPostRow(b)>>} \cup
    {<<[batter |-> b, post_bad_call_woba_mean |-> m, post_bad_call_woba_std |-> sd,
        post_bad_call_count |-> n, post_bad_call_xwoba_mean |-> x]>> :
        m \in PostWobaMeans, sd \in Stds, n \in PostCounts, x \in PostXwobaMeans}

\* A float that is not a number.
NaNScore == [nan |-> TRUE, num |-> 0, den |-> 1]

\* The float num / den (den > 0).
Ratio(num, den) == [nan |-> FALSE, num |-> num, den |-> den]

\* a > b on floats; a comparison with nan is False.
RatioGreater(a, b) == ~a.nan /\ ~b.nan /\ a.num * b.den > b.num * a.den

\* The mutant of CalculateSignificance: a zero pooled deviation scored 0.
CalculateSignificanceZeroForFlat(row) ==
    IF row.clean_pa_count < MinCleanPAs \/ row.post_bad_call_count < MinPostBadCalls
    THEN NaNScore
    ELSE LET pooled_sq == row.baseline_woba_std * row.baseline_woba_std
                          + row.post_bad_call_woba_std * row.post_bad_call_woba_std
         IN  IF pooled_sq = 0 THEN Ratio(0, 1)
             ELSE Ratio(row.woba_decline_after_bad_calls
                          * row.woba_decline_after_bad_calls * row.clean_pa_count,
                        pooled_sq)

\* calculate_significance(row).  The score abs(t_stat) is kept as its square,
\* t_stat^2 = decline^2 * clean_pa_count / (baseline_std^2 + post_std^2);
\* pooled_std is 0 exactly when both deviations are.
CalculateSignificance(row) ==
    IF row.clean_pa_count < MinCleanPAs \/ row.post_bad_call_count < MinPostBadCalls
    THEN NaNScore
    ELSE LET pooled_sq == row.baseline_woba_std * row.baseline_woba_std
                          + row.post_bad_call_woba_std * row.post_bad_call_woba_std
         IN  IF pooled_sq = 0 THEN NaNScore
             ELSE Ratio(row.woba_decline_after_bad_calls
                          * row.woba_decline_after_bad_calls * row.clean_pa_count,
                        pooled_sq)

\* significance_score >= 1.0, on the square; False for nan.
SignificanceAtLeastOne(score) == ~score.nan /\ score.num >= score.den

\* The mutant of MergeInner: a left join, the columns of a batter without a
\* post-bad-call row filled with 0.
MergeLeftFilled(left, right) ==
    Rows([i \in DOMAIN left |->
        LET match == SelectSeq(right, LAMBDA r : r.batter = left[i].batter)
            post == IF match = <<>>
                    THEN [post_bad_call_woba_mean |-> 0, post_bad_call_woba_std |-> 0,
                          post_bad_call_count |-> 0, post_bad_call_xwoba_mean |-> 0]
                    ELSE match[1]
        IN  [batter |-> left[i].batter,
             baseline_woba_mean |-> left[i].baseline_woba_mean,
             baseline_woba_std |-> left[i].baseline_woba_std,
             clean_pa_count |-> left[i].clean_pa_count,
             baseline_xwoba_mean |-> left[i].baseline_xwoba_mean,
             post_bad_call_woba_mean |-> post.post_bad_call_woba_mean,
             post_bad_call_woba_std |-> post.post_bad_call_woba_std,
             post_bad_call_count |-> post.post_bad_call_count,
             post_bad_call_xwoba_mean |-> post.post_bad_call_xwoba_mean]])

\* baseline_df.merge(post_bad_call_performance, on='batter', how='inner')
MergeInner(left, right) ==
    ConcatAll(Rows([i \in DOMAIN left |->
        LET match == SelectSeq(right, LAMBDA r : r.batter = left[i].batter)
        IN  Rows([k \in DOMAIN match |->
                [batter |-> left[i].batter,
                 baseline_woba_mean |-> left[i].baseline_woba_mean,
                 baseline_woba_std |-> left[i].baseline_woba_std,
                 clean_pa_count |-> left[i].clean_pa_count,
                 baseline_xwoba_mean |-> left[i].baseline_xwoba_mean,
                 post_bad_call_woba_mean |-> match[k].post_bad_call_woba_mean,
                 post_bad_call_woba_std |-> match[k].post_bad_call_woba_std,
                 post_bad_call_count |-> match[k].post_bad_call_count,
                 post_bad_call_xwoba_mean |-> match[k].post_bad_call_xwoba_mean]])]))

\* total_pas merged on batter: the batter's clean_pa_count in baseline_df.
TotalCleanPas(baseline, batter) ==
    LET i == CHOOSE k \in DOMAIN baseline : baseline[k].batter = batter
    IN  baseline[i].clean_pa_count

\* The mutant of ProjectedXwobaImprovement: the percentage not divided by 100.
ProjectedByPercentage(xwoba_decline, post_bad_call_count, estimated_total_pas) ==
    Ratio(xwoba_decline * post_bad_call_count * 100, estimated_total_pas)

\* Lines 246-255: xwoba_decline * pct_pas_affected_by_bad_calls / 100, the
\* percentage being post_bad_call_count / estimated_total_pas * 100.
ProjectedXwobaImprovement(xwoba_decline, post_bad_call_count, estimated_total_pas) ==
    Ratio(xwoba_decline * post_bad_call_count, estimated_total_pas)

\* The columns lines 204-265 add to one merged row.
ScoreRow(baseline, row) ==
    LET declined == row @@
            [woba_decline_after_bad_calls |->
                 row.baseline_woba_mean - row.post_bad_call_woba_mean,
             xwoba_decline_after_bad_calls |->
                 row.baseline_xwoba_mean - row.post_bad_call_xwoba_mean]
        total_clean_pas == TotalCleanPas(baseline, row.batter)
        estimated_total_pas == total_clean_pas + row.post_bad_call_count
    IN  declined @@
            [significance_score |-> CalculateSignificance(declined),
             total_clean_pas |-> total_clean_pas,
             estimated_total_pas |-> estimated_total_pas,
             pct_pas_affected_by_bad_calls |->
                 Ratio(row.post_bad_call_count * 100, estimated_total_pas),
             projected_xwoba_improvement |->
                 ProjectedXwobaImprovement(declined.xwoba_decline_after_bad_calls,
                                           row.post_bad_call_count, estimated_total_pas),
             current_season_xwoba_estimate |->
                 Ratio(row.baseline_xwoba_mean * total_clean_pas
                         + row.post_bad_call_xwoba_mean * row.post_bad_call_count,
                       estimated_total_pas),
             robo_ump_xwoba_estimate |->
                 Ratio(row.baseline_xwoba_mean * total_clean_pas
                         + row.post_bad_call_xwoba_mean * row.post_bad_call_count
                         + declined.xwoba_decline_after_bad_calls * row.post_bad_call_count,
                       estimated_total_pas)]

\* The mutant of SortByProjectedImprovement: ascending.
SortByProjectedImprovementAscending(frame) ==
    StableSort(frame,
        Rows([i \in DOMAIN frame |->
            Rows([j \in DOMAIN frame |->
                RatioGreater(frame[j].projected_xwoba_improvement,
                             frame[i].projected_xwoba_improvement)])]))

\* sort_values('projected_xwoba_improvement', ascending=False)
SortByProjectedImprovement(frame) ==
    StableSort(frame,
        Rows([i \in DOMAIN frame |->
            Rows([j \in DOMAIN frame |->
                RatioGreater(frame[i].projected_xwoba_improvement,
                             frame[j].projected_xwoba_improvement)])]))

\* Lines 184-268: merge, score and sort.
ScoreMerged(baseline, post) ==
    LET merged == MergeInner(baseline, post)
    IN  SortByProjectedImprovement(
            Rows([i \in DOMAIN merged |-> ScoreRow(baseline, merged[i])]))

\* The mutant of Retained: rows dropped only when the score is below 1.0.
RetainedUnlessBelowOne(row) ==
    /\ row.post_bad_call_count >= MinPostBadCalls
    /\ row.total_clean_pas >= MinCleanPAs
    /\ ~(~row.significance_score.nan
           /\ row.significance_score.num < row.significance_score.den)

\* The row filter of lines 271-275.
Retained(row) ==
    /\ row.post_bad_call_count >= MinPostBadCalls
    /\ row.total_clean_pas >= MinCleanPAs
    /\ SignificanceAtLeastOne(row.significance_score)

InitScore ==
    /\ old_files = {} /\ months_with_rows = {} /\ parquet_files = {} /\ run_no = 0 /\ yr = 0 /\ mo = 0 /\ build_log = Idle
    /\ regular_days = {} /\ strategy = 0 /\ window = 0 /\ frames = Idle /\ last_err = Idle /\ failed = {} /\ month_result = Idle
    /\ month_days = 0 /\ start_d = 0 /\ end_d = 0 /\ chunks = 0 /\ cur = 0 /\ windows = Idle /\ strategies = Idle
    /\ max_retries = 0 /\ pause = 0 /\ attempt = 0 /\ provider_calls = Idle /\ sleeps = Idle /\ fetched = Idle
    /\ force_redownload = FALSE
    /\ targets_df = Idle /\ report_dict = Idle
    /\ written_details = Idle /\ csv_cells = Idle /\ loaded_details = Idle
    /\ raw_pitch_df = Idle /\ clean_pitch_df = Idle
    /\ pc = "score_in"
    /\ \E b1 \in BaselineRows(1) : \E b2 \in BaselineRows(2) : baseline_df = b1 \o b2
    /\ \E p1 \in PostRows(1) : \E p2 \in PostRows(2) : post_perf = p1 \o p2
    /\ merged_df = Idle
    /\ pitch_df = Idle /\ result_df = Idle /\ runs = 0
    /\ pa_df = Idle /\ min_pa = 0 /\ filtered_df = Idle
    /\ flow_in = Idle /\ scouting_report = Idle /\ raised = FALSE
    /\ files = {} /\ steps = <<>> /\ outcome = "none"
    /\ calls_in = Idle /\ pa_metrics_df = Idle
    /\ df = Idle /\ calls_df = Idle /\ impact_analysis = Idle
    /\ bad_call_counts = Idle
    /\ pa_table = Idle /\ clean_pas = Idle /\ baseline_stats = Idle

\* calculate_psychological_impact_scores up to the sort of line 268; with an
\* empty input it returns an empty frame at line 182.
MergeAndScore ==
    /\ pc = "score_in"
    /\ IF baseline_df = <<>> \/ post_perf = <<>>
       THEN merged_df' = <<>> /\ pc' = "score_done"
       ELSE merged_df' = ScoreMerged(baseline_df, post_perf) /\ pc' = "score_sorted"
    /\ UNCHANGED <<baseline_df, post_perf, callVars, aggVars, extVars, baseVars, qualVars, flowVars, ioVars, cleanVars, tripVars, reportVars, fullVars, fetchVars, splitVars, monthVars, buildVars>>

\* calculate_psychological_impact_scores, lines 271-277: the filter and return.
FilterSignificant ==
    /\ pc = "score_sorted"
    /\ merged_df' = SelectSeq(merged_df, Retained)
    /\ pc' = "score_done"
    /\ UNCHANGED <<baseline_df, post_perf, callVars, aggVars, extVars, baseVars, qualVars, flowVars, ioVars, cleanVars, tripVars, reportVars, fullVars, fetchVars, splitVars, monthVars, buildVars>>

NextScore == MergeAndScore \/ FilterSignificant

SpecScore == InitScore /\ [][NextScore]_vars

\* The merged table is scored and sorted, not yet filtered.
Scored == pc = "score_sorted"

\* calculate_psychological_impact_scores has returned merged_df.
ScoreReturned == pc = "score_done"

\* The row of batter b in a per-batter table, as a set of indices.
RowsOfBatter(frame, b) == {i \in DOMAIN frame : frame[i].batter = b}

\* C4: the significance score of a merged batter is the undefined marker (not
\* 0, not a number) whenever its clean-PA count is below 50, or its
\* post-bad-call count is below 20, or both deviations (hence the pooled
\* deviation) are 0, whatever the decline; otherwise it is a defined
\* non-negative number.
C4_SignificanceUndefinedIff ==
    Scored =>
        \A i \in DOMAIN merged_df :
            LET r == merged_df[i]
                undefined_case ==
                    \/ r.clean_pa_count < 50
                    \/ r.post_bad_call_count < 20
                    \/ r.baseline_woba_std = 0 /\ r.post_bad_call_woba_std = 0
            IN  IF undefined_case
                THEN r.significance_score = NaNScore
                ELSE /\ ~r.significance_score.nan
                     /\ r.significance_score.den > 0
                     /\ r.significance_score.num >= 0

C4_Witness ==
    /\ Scored
    /\ \E i \in DOMAIN merged_df :
          /\ merged_df[i].clean_pa_count >= 50
          /\ merged_df[i].post_bad_call_count >= 20
          /\ merged_df[i].baseline_woba_std = 0
          /\ merged_df[i].post_bad_call_woba_std = 0
          /\ merged_df[i].woba_decline_after_bad_calls # 0
          /\ merged_df[i].significance_score.nan
    /\ \E i \in DOMAIN merged_df :
          /\ ~merged_df[i].significance_score.nan
          /\ merged_df[i].significance_score.num > 0

\* Batter b is in both inputs with at least 50 clean PAs, at least 20
\* post-bad-call PAs and a defined significance of at least 1.0.
MeetsAllThree(b) ==
    \E i \in RowsOfBatter(baseline_df, b) : \E j \in RowsOfBatter(post_perf, b) :
        LET decline == baseline_df[i].baseline_woba_mean
                       - post_perf[j].post_bad_call_woba_mean
            spread == baseline_df[i].baseline_woba_std * baseline_df[i].baseline_woba_std
                      + post_perf[j].post_bad_call_woba_std
                          * post_perf[j].post_bad_call_woba_std
        IN  /\ baseline_df[i].clean_pa_count >= 50
            /\ post_perf[j].post_bad_call_count >= 20
            /\ spread > 0
            /\ decline * decline * baseline_df[i].clean_pa_count >= spread

\* C3: every row calculate_psychological_impact_scores returns has
\* post_bad_call_count >= 20, clean-PA count >= 50 and a defined
\* significance_score >= 1.0 (a row with an undefined score is never
\* returned), and every batter of both inputs that meets the three conditions
\* has a row.
C3_RetentionFilter ==
    ScoreReturned =>
        /\ \A i \in DOMAIN merged_df :
              /\ merged_df[i].post_bad_call_count >= 20
              /\ merged_df[i].clean_pa_count >= 50
              /\ ~merged_df[i].significance_score.nan
              /\ merged_df[i].significance_score.num >= merged_df[i].significance_score.den
        /\ \A b \in Batters :
              MeetsAllThree(b) => RowsOfBatter(merged_df, b) # {}

C3_Witness ==
    /\ ScoreReturned
    /\ \E b \in Batters : MeetsAllThree(b) /\ RowsOfBatter(merged_df, b) # {}
    /\ \E b \in Batters :
          /\ RowsOfBatter(merged_df, b) = {}
          /\ \E i \in RowsOfBatter(baseline_df, b) : \E j \in RowsOfBatter(post_perf, b) :
                /\ baseline_df[i].clean_pa_count >= 50
                /\ post_perf[j].post_bad_call_count >= 20
                /\ baseline_df[i].baseline_woba_std = 0
                /\ post_perf[j].post_bad_call_woba_std = 0
                /\ baseline_df[i].baseline_woba_mean # post_perf[j].post_bad_call_woba_mean

\* ---------------------------------------------------------------------------
\* Baseline Estimator: UmpireImpactAnalyzer.calculate_baseline_performance.
\* The result depends on the PA table only through how many rows of each kind
\* (batter, incorrect_call_details, woba_value) it holds, so pa_table is that
\* count per kind.  woba_value is what calculate_pa_metrics wrote: the last
\* pitch's value, or nan where the pitch has none.  The mean and deviation
\* columns are left out of baseline_stats.
\* ---------------------------------------------------------------------------

FavoringDetail == [favors_batter |-> FloatTrue]
AdverseDetail == [favors_batter |-> FloatFalse]
DetailLists == {<<>>, <<FavoringDetail>>, <<AdverseDetail>>,
                <<FavoringDetail, AdverseDetail>>}
WobaValues == {NaN, "0.9"}

RowKinds ==
    [batter : Batters, incorrect_call_details : DetailLists, woba_value : WobaValues]

RowKind(b, details, woba) ==
    [batter |-> b, incorrect_call_details |-> details, woba_value |-> woba]

\* How many rows of each kind a batter may have.
ValuedCleanCounts ==
    {0} \cup ((MinCleanPAs - CountSlack - 1)..(MinCleanPAs + CountSlack))
MissingWobaCounts == 0..CountSlack
OtherCounts == {0, 1}

\* The rows of one batter, as counts per kind (0 for the kinds not listed).
BatterRowCounts(b) ==
    {[k \in {r \in RowKinds : r.batter = b} |->
        IF k = RowKind(b, <<>>, "0.9") THEN clean
        ELSE IF k = RowKind(b, <<>>, NaN) THEN missing
        ELSE IF k = RowKind(b, <<FavoringDetail>>, "0.9") THEN favoring
        ELSE IF k = RowKind(b, <<AdverseDetail>>, "0.9") THEN adverse
        ELSE IF k = RowKind(b, <<FavoringDetail, AdverseDetail>>, "0.9") THEN mixed
        ELSE 0] :
      clean \in ValuedCleanCounts, missing \in MissingWobaCounts,
      favoring \in OtherCounts, adverse \in OtherCounts, mixed \in OtherCounts}

\* Lines 94-96: the calls of a row that did not favor the batter.
BadCallsAgainst(row) ==
    SelectSeq(row.incorrect_call_details, LAMBDA call : ~Truthy(call.favors_batter))

\* Lines 96-97: the row goes into clean_pas.
IsCleanPa(row) == BadCallsAgainst(row) = <<>>

RECURSIVE SumCounts(_, _)
SumCounts(table, kinds) ==
    IF kinds = {} THEN 0
    ELSE LET k == CHOOSE x \in kinds : TRUE
         IN  table[k] + SumCounts(table, kinds \ {k})

\* The group keys of groupby('batter'), ascending.
Ascending(S) ==
    [n \in 1..Cardinality(S) |->
        CHOOSE b \in S : Cardinality({c \in S : c <= b}) = n]

\* The 'count' aggregate of woba_value over the batter's rows of clean_df:
\* the rows whose woba_value is not nan.
CleanPaCount(table, b) ==
    SumCounts(table, {k \in RowKinds :
        k.batter = b /\ IsCleanPa(k) /\ k.woba_value # NaN})

\* The mutant of CleanPas: only the PAs with an empty list collected.
CleanPasEmptyListOnly(table) ==
    [k \in RowKinds |-> IF k.incorrect_call_details = <<>> THEN table[k] ELSE 0]

\* Lines 92-97: the rows of the table that go into clean_pas.
CleanPas(table) ==
    [k \in RowKinds |-> IF IsCleanPa(k) THEN table[k] ELSE 0]

CalculateBaselinePerformance(table) ==
    LET clean_df == CleanPas(table)
        clean_batters == {b \in Batters :
            \E k \in RowKinds : k.batter = b /\ clean_df[k] > 0}
        grouped == Ascending(clean_batters)
        stats == Rows([n \in DOMAIN grouped |->
            [batter |-> grouped[n],
             clean_pa_count |-> CleanPaCount(clean_df, grouped[n])]])
    IN  IF clean_batters = {} THEN <<>>
        ELSE SelectSeq(stats, LAMBDA r : r.clean_pa_count >= MinCleanPAs)

InitBase ==
    /\ old_files = {} /\ months_with_rows = {} /\ parquet_files = {} /\ run_no = 0 /\ yr = 0 /\ mo = 0 /\ build_log = Idle
    /\ regular_days = {} /\ strategy = 0 /\ window = 0 /\ frames = Idle /\ last_err = Idle /\ failed = {} /\ month_result = Idle
    /\ month_days = 0 /\ start_d = 0 /\ end_d = 0 /\ chunks = 0 /\ cur = 0 /\ windows = Idle /\ strategies = Idle
    /\ max_retries = 0 /\ pause = 0 /\ attempt = 0 /\ provider_calls = Idle /\ sleeps = Idle /\ fetched = Idle
    /\ force_redownload = FALSE
    /\ targets_df = Idle /\ report_dict = Idle
    /\ written_details = Idle /\ csv_cells = Idle /\ loaded_details = Idle
    /\ raw_pitch_df = Idle /\ clean_pitch_df = Idle
    /\ pc = "base_in"
    /\ \E t1 \in BatterRowCounts(1) : \E t2 \in BatterRowCounts(2) :
          pa_table = [k \in RowKinds |-> IF k.batter = 1 THEN t1[k] ELSE t2[k]]
    /\ clean_pas = Idle /\ baseline_stats = Idle
    /\ pitch_df = Idle /\ result_df = Idle /\ runs = 0
    /\ pa_df = Idle /\ min_pa = 0 /\ filtered_df = Idle
    /\ flow_in = Idle /\ scouting_report = Idle /\ raised = FALSE
    /\ files = {} /\ steps = <<>> /\ outcome = "none"
    /\ calls_in = Idle /\ pa_metrics_df = Idle
    /\ df = Idle /\ calls_df = Idle /\ impact_analysis = Idle
    /\ bad_call_counts = Idle
    /\ baseline_df = Idle /\ post_perf = Idle /\ merged_df = Idle

\* baseline_df = self.calculate_baseline_performance(df)
RunCalculateBaselinePerformance ==
    /\ pc = "base_in"
    /\ clean_pas' = CleanPas(pa_table)
    /\ baseline_stats' = CalculateBaselinePerformance(pa_table)
    /\ pc' = "base_done"
    /\ UNCHANGED <<pa_table, callVars, aggVars, extVars, scoreVars, qualVars, flowVars, ioVars, cleanVars, tripVars, reportVars, fullVars, fetchVars, splitVars, monthVars, buildVars>>

NextBase == RunCalculateBaselinePerformance

SpecBase == InitBase /\ [][NextBase]_vars

BaselineReturned == pc = "base_done"

\* The number of rows of batter b in the table that are clean PAs.
CleanRowsOf(b) ==
    SumCounts(pa_table,
        {k \in RowKinds :
            /\ k.batter = b
            /\ \A n \in DOMAIN k.incorrect_call_details :
                  k.incorrect_call_details[n].favors_batter # FloatFalse})

\* What the code does keep: a batter has a record iff at least 50 of the
\* batter's clean PA rows carry a woba_value, and then exactly one record.
BaselineIffFiftyValuedCleanRows ==
    BaselineReturned =>
        \A b \in Batters :
            LET valued == SumCounts(pa_table,
                    {k \in RowKinds : k.batter = b /\ k.woba_value # NaN
                        /\ \A n \in DOMAIN k.incorrect_call_details :
                              k.incorrect_call_details[n].favors_batter # FloatFalse})
            IN  /\ Cardinality(RowsOfBatter(baseline_stats, b))
                     = IF valued >= 50 THEN 1 ELSE 0
                /\ \A i \in RowsOfBatter(baseline_stats, b) :
                      baseline_stats[i].clean_pa_count = valued

\* C5: calculate_baseline_performance returns a record for a batter iff the
\* batter has at least 50 clean PA rows in the table (50 in, 49 out), the
\* clean-PA count being the number of those rows, and never two records for
\* one batter.
C5_RecordIffFiftyCleanPAs ==
    BaselineReturned =>
        \A b \in Batters :
            /\ RowsOfBatter(baseline_stats, b) # {} <=> CleanRowsOf(b) >= 50
            /\ Cardinality(RowsOfBatter(baseline_stats, b)) <= 1
            /\ \A i \in RowsOfBatter(baseline_stats, b) :
                  baseline_stats[i].clean_pa_count = CleanRowsOf(b)

\* The rows of the table of one kind all went into clean_pas, or none did.
Counted(k) == clean_pas[k] = pa_table[k]
NotCounted(k) == clean_pas[k] = 0

\* C11: a PA goes into the baseline statistics iff its incorrect-call list has
\* no entry with favors_batter = false: an empty list or a list of favoring
\* calls only is counted, a list with an adverse call never is, whatever else
\* it holds.
C11_CleanIffNoAdverseCall ==
    BaselineReturned =>
        \A k \in RowKinds :
            IF \E n \in DOMAIN k.incorrect_call_details :
                   k.incorrect_call_details[n].favors_batter = FloatFalse
            THEN NotCounted(k)
            ELSE Counted(k)

C11_Witness ==
    /\ BaselineReturned
    /\ \E b \in Batters :
          /\ pa_table[RowKind(b, <<FavoringDetail>>, "0.9")] > 0
          /\ clean_pas[RowKind(b, <<FavoringDetail>>, "0.9")] > 0
          /\ pa_table[RowKind(b, <<FavoringDetail, AdverseDetail>>, "0.9")] > 0
          /\ clean_pas[RowKind(b, <<FavoringDetail, AdverseDetail>>, "0.9")] = 0
          /\ pa_table[RowKind(b, <<AdverseDetail>>, "0.9")] > 0
          /\ clean_pas[RowKind(b, <<>>, "0.9")] > 0
          /\ \E i \in RowsOfBatter(baseline_stats, b) :
                baseline_stats[i].clean_pa_count
                  = clean_pas[RowKind(b, <<>>, "0.9")]
                    + clean_pas[RowKind(b, <<FavoringDetail>>, "0.9")]

\* ---------------------------------------------------------------------------
\* Post-Bad-Call Extractor: anchors and multiplicity of the emitted PAs.
\* ---------------------------------------------------------------------------

\* analyze_post_call_performance has returned calls_df.
Anchored == pc \in {"ext_calls", "ext_done"}

\* PA number j of the table qualifies for the adverse event c: same batter,
\* date not before the event's, pa_id greater than the event's.
Qualifies(c, j) ==
    /\ df[j].batter = calls_df[c].batter
    /\ StrLeq(calls_df[c].game_date, df[j].game_date)
    /\ StrLess(calls_df[c].pa_id, df[j].pa_id)

\* PA number j is among the first 10 qualifying PAs of event c, in the order
\* of date and pa_id.
InWindow(c, j) ==
    /\ Qualifies(c, j)
    /\ Cardinality({i \in DOMAIN df :
           /\ Qualifies(c, i)
           /\ \/ StrLess(df[i].game_date, df[j].game_date)
              \/ df[i].game_date = df[j].game_date /\ StrLess(df[i].pa_id, df[j].pa_id)})
         < 10

\* C12: the anchors are exactly one row per incorrect-call entry with
\* favors_batter = false (none for an entry that favors the batter), and a PA
\* in the 10-PA window of several adverse events is emitted once per event,
\* two events of one PA included: the records with subsequent PA Q are as many
\* as the adverse events whose window holds Q.
C12_OncePerAdverseEvent ==
    /\ Anchored =>
          /\ \A j \in DOMAIN df :
                \A n \in DOMAIN df[j].incorrect_call_details :
                    LET entry == df[j].incorrect_call_details[n]
                        anchors == {c \in DOMAIN calls_df :
                            /\ calls_df[c].pa_id = df[j].pa_id
                            /\ calls_df[c].pitch_number_of_bad_call = entry.pitch_number}
                    IN  Cardinality(anchors)
                          = IF entry.favors_batter = FloatFalse THEN 1 ELSE 0
          /\ \A c \in DOMAIN calls_df :
                \E j \in DOMAIN df : calls_df[c].pa_id = df[j].pa_id
    /\ Extracted =>
          \A j \in DOMAIN df :
              Cardinality({n \in DOMAIN impact_analysis :
                              impact_analysis[n].subsequent_pa_id = df[j].pa_id})
                = Cardinality({c \in DOMAIN calls_df : InWindow(c, j)})

C12_Witness ==
    /\ Extracted
    /\ \E j, q \in DOMAIN df :
          /\ Len(df[j].incorrect_call_details) = 3
          /\ df[j].incorrect_call_details[1].favors_batter = FloatTrue
          /\ Cardinality(EventsOf(df[j].pa_id)) = 2
          /\ Cardinality({n \in DOMAIN impact_analysis :
                /\ impact_analysis[n].bad_call_pa_id = df[j].pa_id
                /\ impact_analysis[n].subsequent_pa_id = df[q].pa_id}) = 2
    /\ \E j \in DOMAIN df :
          /\ df[j].incorrect_call_details # <<>>
          /\ EventsOf(df[j].pa_id) = {}

\* ---------------------------------------------------------------------------
\* Impact Scorer: total_bad_calls_experienced.
\* ---------------------------------------------------------------------------

BadCallsCounted == pc = "ext_counted"

\* What the code does keep: the column counts the batter's PAs that hold an
\* adverse call and have at least one record.
CountsAnchorPAs ==
    BadCallsCounted =>
        \A g \in DOMAIN bad_call_counts :
            bad_call_counts[g].total_bad_calls_experienced
              = Cardinality({j \in DOMAIN df :
                    /\ df[j].batter = bad_call_counts[g].batter
                    /\ \E n \in DOMAIN impact_analysis :
                          impact_analysis[n].bad_call_pa_id = df[j].pa_id})

\* C13: total_bad_calls_experienced of a batter is the number of the batter's
\* adverse events (incorrect calls with favors_batter = false), two adverse
\* calls inside one PA counting as two.
C13_CountsAdverseEvents ==
    BadCallsCounted =>
        \A g \in DOMAIN bad_call_counts :
            bad_call_counts[g].total_bad_calls_experienced
              = Cardinality({c \in DOMAIN calls_df :
                    calls_df[c].batter = bad_call_counts[g].batter})

\* ---------------------------------------------------------------------------
\* Qualification: StatcastProcessor.filter_qualified_batters, called by a
\* caller with its own min_pa, and by the processing step of run_full_pipeline
\* (process_full_dataset).  A PA row is kept down to its batter and pa_id.
\* ---------------------------------------------------------------------------

\* min_pa: int = 300
DefaultMinPa == 300

MaxPaRows == 4
MaxMinPa == 3

PaIds == {1, 2}
PaRows == [batter : Batters, pa_id : PaIds]
PaTables == {<<>>} \cup SeqsUpTo(PaRows, MaxPaRows)
MinPaChoices == (1..MaxMinPa) \cup {DefaultMinPa}

\* pa_df['batter'].value_counts()
PaCount(frame, b) == Cardinality({i \in DOMAIN frame : frame[i].batter = b})

\* The mutant of FilterQualifiedBatters: more than minimum rows asked for.
FilterQualifiedBattersAbove(frame, minimum) ==
    LET qualified_batters ==
            {b \in {frame[i].batter : i \in DOMAIN frame} : PaCount(frame, b) > minimum}
    IN  SelectSeq(frame, LAMBDA row : row.batter \in qualified_batters)

\* filter_qualified_batters(pa_df, min_pa)
FilterQualifiedBatters(frame, minimum) ==
    LET qualified_batters ==
            {b \in {frame[i].batter : i \in DOMAIN frame} : PaCount(frame, b) >= minimum}
    IN  SelectSeq(frame, LAMBDA row : row.batter \in qualified_batters)

InitQual ==
    /\ old_files = {} /\ months_with_rows = {} /\ parquet_files = {} /\ run_no = 0 /\ yr = 0 /\ mo = 0 /\ build_log = Idle
    /\ regular_days = {} /\ strategy = 0 /\ window = 0 /\ frames = Idle /\ last_err = Idle /\ failed = {} /\ month_result = Idle
    /\ month_days = 0 /\ start_d = 0 /\ end_d = 0 /\ chunks = 0 /\ cur = 0 /\ windows = Idle /\ strategies = Idle
    /\ max_retries = 0 /\ pause = 0 /\ attempt = 0 /\ provider_calls = Idle /\ sleeps = Idle /\ fetched = Idle
    /\ force_redownload = FALSE
    /\ targets_df = Idle /\ report_dict = Idle
    /\ written_details = Idle /\ csv_cells = Idle /\ loaded_details = Idle
    /\ raw_pitch_df = Idle /\ clean_pitch_df = Idle
    /\ pc = "qual_in"
    /\ pa_df \in PaTables
    /\ min_pa \in MinPaChoices
    /\ filtered_df = Idle
    /\ flow_in = Idle /\ scouting_report = Idle /\ raised = FALSE
    /\ files = {} /\ steps = <<>> /\ outcome = "none"
    /\ pitch_df = Idle /\ result_df = Idle /\ runs = 0
    /\ calls_in = Idle /\ pa_metrics_df = Idle
    /\ df = Idle /\ calls_df = Idle /\ impact_analysis = Idle
    /\ bad_call_counts = Idle
    /\ pa_table = Idle /\ clean_pas = Idle /\ baseline_stats = Idle
    /\ baseline_df = Idle /\ post_perf = Idle /\ merged_df = Idle

\* A caller's filter_qualified_batters(pa_df, min_pa).
CallFilterQualifiedBatters ==
    /\ pc = "qual_in"
    /\ filtered_df' = FilterQualifiedBatters(pa_df, min_pa)
    /\ pc' = "qual_filtered"
    /\ UNCHANGED <<pa_df, min_pa, callVars, aggVars, extVars, baseVars, scoreVars, flowVars, ioVars, cleanVars, tripVars, reportVars, fullVars, fetchVars, splitVars, monthVars, buildVars>>

\* run_full_pipeline(min_pa=min_pa), step 2: process_full_dataset(raw_filename,
\* processed_filename), which ends in filter_qualified_batters(pa_metrics_df);
\* neither call is given min_pa.
RunProcessFullDataset ==
    /\ pc = "qual_in"
    /\ filtered_df' = FilterQualifiedBatters(pa_df, DefaultMinPa)
    /\ pc' = "qual_processed"
    /\ UNCHANGED <<pa_df, min_pa, callVars, aggVars, extVars, baseVars, scoreVars, flowVars, ioVars, cleanVars, tripVars, reportVars, fullVars, fetchVars, splitVars, monthVars, buildVars>>

NextQual == CallFilterQualifiedBatters \/ RunProcessFullDataset

SpecQual == InitQual /\ [][NextQual]_vars

\* The positions of the rows of pa_df whose batter has at least n rows.
QualifiedPositions(n) ==
    {i \in DOMAIN pa_df : PaCount(pa_df, pa_df[i].batter) >= n}

\* table is the rows of pa_df at the positions keep, unchanged and in order.
IsRowsAt(table, keep) ==
    /\ Len(table) = Cardinality(keep)
    /\ \A i \in keep :
          table[1 + Cardinality({j \in keep : j < i})] = pa_df[i]

\* C14: filter_qualified_batters(pa_df, min_pa) returns exactly the rows of
\* pa_df whose batter has at least min_pa rows (min_pa rows kept, min_pa - 1
\* removed), unchanged and in their original order.
C14_KeepsQualifiedRows ==
    pc = "qual_filtered" => IsRowsAt(filtered_df, QualifiedPositions(min_pa))

C14_Witness ==
    /\ pc = "qual_filtered"
    /\ \E b, c \in Batters :
          /\ PaCount(pa_df, b) = min_pa
          /\ PaCount(pa_df, c) = min_pa - 1
          /\ PaCount(pa_df, c) > 0
          /\ PaCount(filtered_df, b) = min_pa
          /\ PaCount(filtered_df, c) = 0
          /\ \E i, j \in DOMAIN pa_df :
                i < j /\ pa_df[i].batter = c /\ pa_df[j].batter = b

\* C15: the processed table of a run of run_full_pipeline with min_pa holds
\* exactly the PAs of the batters with at least min_pa PAs, whatever min_pa is.
C15_MinPaOfTheRunIsUsed ==
    pc = "qual_processed" => IsRowsAt(filtered_df, QualifiedPositions(min_pa))

\* ---------------------------------------------------------------------------
\* run_full_analysis, from the baseline to the scores: the table returned by
\* calculate_baseline_performance is the baseline_df of
\* calculate_psychological_impact_scores.  The PA tables are those in which a
\* batter has no clean PA, 40 or 50; the mean and deviation columns, which the
\* baseline model leaves out, and the aggregate of impact_df are drawn when
\* the table is handed on.
\* ---------------------------------------------------------------------------

PipeCleanCounts == {0, 40, MinCleanPAs}

PipeTables ==
    {[k \in RowKinds |->
        IF k.incorrect_call_details = <<>> /\ k.woba_value = "0.9"
        THEN n[k.batter] ELSE 0] : n \in [Batters -> PipeCleanCounts]}

\* The rows of baseline_stats with their mean and deviation columns.
WithBaselineColumns(stats, sd) ==
    Rows([i \in DOMAIN stats |->
        [batter |-> stats[i].batter, clean_pa_count |-> stats[i].clean_pa_count,
         baseline_woba_mean |-> 3400, baseline_woba_std |-> sd[stats[i].batter],
         baseline_xwoba_mean |-> 3400]])

InitPipe ==
    /\ old_files = {} /\ months_with_rows = {} /\ parquet_files = {} /\ run_no = 0 /\ yr = 0 /\ mo = 0 /\ build_log = Idle
    /\ regular_days = {} /\ strategy = 0 /\ window = 0 /\ frames = Idle /\ last_err = Idle /\ failed = {} /\ month_result = Idle
    /\ month_days = 0 /\ start_d = 0 /\ end_d = 0 /\ chunks = 0 /\ cur = 0 /\ windows = Idle /\ strategies = Idle
    /\ max_retries = 0 /\ pause = 0 /\ attempt = 0 /\ provider_calls = Idle /\ sleeps = Idle /\ fetched = Idle
    /\ force_redownload = FALSE
    /\ targets_df = Idle /\ report_dict = Idle
    /\ written_details = Idle /\ csv_cells = Idle /\ loaded_details = Idle
    /\ raw_pitch_df = Idle /\ clean_pitch_df = Idle
    /\ pc = "base_in"
    /\ pa_table \in PipeTables
    /\ clean_pas = Idle /\ baseline_stats = Idle
    /\ pitch_df = Idle /\ result_df = Idle /\ runs = 0
    /\ pa_df = Idle /\ min_pa = 0 /\ filtered_df = Idle
    /\ flow_in = Idle /\ scouting_report = Idle /\ raised = FALSE
    /\ files = {} /\ steps = <<>> /\ outcome = "none"
    /\ calls_in = Idle /\ pa_metrics_df = Idle
    /\ df = Idle /\ calls_df = Idle /\ impact_analysis = Idle
    /\ bad_call_counts = Idle
    /\ baseline_df = Idle /\ post_perf = Idle /\ merged_df = Idle

\* run_full_analysis, lines 331-343: with a non-empty baseline_df and a
\* non-empty impact_analysis_df the two are handed to the scorer.
HandToScorer ==
    /\ pc = "base_done"
    /\ baseline_stats # <<>>
    /\ \E sd \in [Batters -> Stds] :
          baseline_df' = WithBaselineColumns(baseline_stats, sd)
    /\ \E p1 \in PostRows(1) : \E p2 \in PostRows(2) :
          /\ p1 \o p2 # <<>>
          /\ post_perf' = p1 \o p2
    /\ pc' = "score_in"
    /\ UNCHANGED <<merged_df, callVars, aggVars, extVars, baseVars, qualVars, flowVars, ioVars, cleanVars, tripVars, reportVars, fullVars, fetchVars, splitVars, monthVars, buildVars>>

NextPipe ==
    \/ RunCalculateBaselinePerformance
    \/ HandToScorer
    \/ MergeAndScore
    \/ FilterSignificant

SpecPipe == InitPipe /\ [][NextPipe]_vars

\* C16: the scorer joins baseline and aggregated post-bad-call records on
\* batter as an inner join: a batter on one side only has no row, no batter
\* has two rows; a batter with only 40 clean PAs has no baseline record and so
\* no row in the final table, whatever its post-bad-call statistics.
C16_InnerJoinOnBatter ==
    /\ (Scored \/ ScoreReturned) =>
          /\ \A i \in DOMAIN merged_df :
                /\ RowsOfBatter(baseline_df, merged_df[i].batter) # {}
                /\ RowsOfBatter(post_perf, merged_df[i].batter) # {}
          /\ \A b \in Batters : Cardinality(RowsOfBatter(merged_df, b)) <= 1
    /\ \A b \in Batters :
          (pa_table # Idle /\ CleanRowsOf(b) = 40) =>
              /\ BaselineReturned => RowsOfBatter(baseline_stats, b) = {}
              /\ (Scored \/ ScoreReturned) =>
                    /\ RowsOfBatter(baseline_df, b) = {}
                    /\ RowsOfBatter(merged_df, b) = {}

C16_Witness ==
    /\ ScoreReturned
    /\ \E b, c \in Batters :
          /\ CleanRowsOf(b) = 40
          /\ RowsOfBatter(baseline_stats, b) = {}
          /\ \E j \in RowsOfBatter(post_perf, b) :
                /\ post_perf[j].post_bad_call_count >= 20
                /\ post_perf[j].post_bad_call_woba_mean < 3400
                /\ post_perf[j].post_bad_call_woba_std > 0
          /\ RowsOfBatter(merged_df, b) = {}
          /\ RowsOfBatter(merged_df, c) # {}

\* ---------------------------------------------------------------------------
\* Impact Scorer: the declines, the projection and the order of the rows.
\* ---------------------------------------------------------------------------

\* The sign of an integer.
Sign(x) == IF x > 0 THEN 1 ELSE IF x < 0 THEN -1 ELSE 0

\* C17: a batter with clean-PA count >= 50, post-bad-call count >= 20 and
\* significance >= 1.0 has a row with xwoba_decline_after_bad_calls =
\* baseline_xwoba_mean - post_bad_call_xwoba_mean and
\* projected_xwoba_improvement = decline * post / (clean + post), of the sign
\* of the decline; the batter of 60 clean PAs (mean 0.340) and 25
\* post-bad-call PAs (mean 0.300) has decline 0.040 and a positive projection.
C17_DeclineAndProjection ==
    ScoreReturned =>
        \A b \in Batters :
            /\ MeetsAllThree(b) =>
                  \E k \in RowsOfBatter(merged_df, b) :
                  \E i \in RowsOfBatter(baseline_df, b) :
                  \E j \in RowsOfBatter(post_perf, b) :
                      LET r == merged_df[k]
                          decline == baseline_df[i].baseline_xwoba_mean
                                     - post_perf[j].post_bad_call_xwoba_mean
                          clean == baseline_df[i].clean_pa_count
                          post == post_perf[j].post_bad_call_count
                          projected == r.projected_xwoba_improvement
                      IN  /\ r.xwoba_decline_after_bad_calls = decline
                          /\ ~projected.nan /\ projected.den > 0
                          /\ projected.num * (clean + post)
                               = decline * post * projected.den
                          /\ Sign(projected.num) = Sign(decline)
            /\ (/\ \E i \in RowsOfBatter(baseline_df, b) :
                       baseline_df[i] = ScenarioBaselineRow(b)
                /\ \E j \in RowsOfBatter(post_perf, b) :
                       post_perf[j] = ScenarioPostRow(b)) =>
                  \E k \in RowsOfBatter(merged_df, b) :
                      /\ merged_df[k].xwoba_decline_after_bad_calls = 400
                      /\ merged_df[k].projected_xwoba_improvement.num > 0

C17_Witness ==
    /\ ScoreReturned
    /\ \E k \in DOMAIN merged_df :
          /\ merged_df[k].clean_pa_count = 60
          /\ merged_df[k].post_bad_call_count = 25
          /\ merged_df[k].baseline_xwoba_mean = 3400
          /\ merged_df[k].post_bad_call_xwoba_mean = 3000
          /\ merged_df[k].xwoba_decline_after_bad_calls = 400
          /\ merged_df[k].projected_xwoba_improvement = Ratio(400 * 25, 85)
    /\ \E k \in DOMAIN merged_df :
          /\ merged_df[k].xwoba_decline_after_bad_calls < 0
          /\ merged_df[k].projected_xwoba_improvement.num < 0

\* Each row of frame has a projected improvement greater than or equal to the
\* next row's.
NonIncreasing(frame) ==
    \A k \in 1..(Len(frame) - 1) :
        frame[k].projected_xwoba_improvement.num
            * frame[k + 1].projected_xwoba_improvement.den
          >= frame[k + 1].projected_xwoba_improvement.num
               * frame[k].projected_xwoba_improvement.den

\* The rows of after are rows of before, in the order they have in before.
KeepsOrder(before, after) ==
    /\ \A k \in DOMAIN after : \E i \in DOMAIN before : before[i] = after[k]
    /\ \A k, l \in DOMAIN after :
          k < l => \E i, j \in DOMAIN before :
                       i < j /\ before[i] = after[k] /\ before[j] = after[l]

EmptyFrame == [columns |-> FALSE, rows |-> {}]

WithColumns(batters) == [columns |-> TRUE, rows |-> batters]

Frames == {EmptyFrame} \cup {WithColumns(S) : S \in SUBSET Batters}

\* frame.empty
IsEmpty(frame) == frame.rows = {}

\* A batter of the processed table: whether a PA holds an adverse call,
\* whether a PA follows one, how many clean PAs carry a woba_value, and
\* whether the batter's scored row passes the retention filter.
FlowBatters ==
    [adverse : BOOLEAN, later : BOOLEAN, clean : {"none", "few", "floor"},
     significant : BOOLEAN]

\* What a stage does: it returns a frame or raises.
Returns(frame) == [raises |-> FALSE, frame |-> frame]
Raises == [raises |-> TRUE, frame |-> EmptyFrame]

\* analyze_post_call_performance: pd.DataFrame() when no call_record was made.
PostCallFrame(d) ==
    LET batters == {b \in Batters : d[b].adverse}
    IN  IF batters = {} THEN EmptyFrame ELSE WithColumns(batters)

\* calculate_baseline_performance: pd.DataFrame() without clean PAs, else the
\* rows with clean_pa_count >= 50.
BaselineFrame(d) ==
    IF \A b \in Batters : d[b].clean = "none" THEN EmptyFrame
    ELSE WithColumns({b \in Batters : d[b].clean = "floor"})

\* analyze_performance_after_bad_calls: sorts calls_df by its columns, then
\* pd.DataFrame(impact_analysis), which has no columns when the list is empty.
ImpactFrame(d, calls) ==
    IF ~calls.columns THEN Raises
    ELSE LET batters == {b \in calls.rows : d[b].later}
         IN  Returns(IF batters = {} THEN EmptyFrame ELSE WithColumns(batters))

\* The mutant of ImpactScores: no check for empty inputs.
ImpactScoresUnguarded(d, baseline, impact) ==
    IF ~impact.columns \/ ~baseline.columns THEN Raises
    ELSE Returns(WithColumns({b \in baseline.rows \cap impact.rows : d[b].significant}))

\* calculate_psychological_impact_scores: empty inputs at line 181; groupby
\* and merge on 'batter'; apply on a merged frame without rows gives an empty
\* column; the filter of lines 271-275.
ImpactScores(d, baseline, impact) ==
    IF IsEmpty(baseline) \/ IsEmpty(impact) THEN Returns(EmptyFrame)
    ELSE IF ~impact.columns \/ ~baseline.columns THEN Raises
    ELSE Returns(WithColumns({b \in baseline.rows \cap impact.rows : d[b].significant}))

NoReport == "{}"
ErrorReport == "error"
FullReport == "scouting_summary"

\* generate_scouting_report: the error object at line 283, else the summary.
ScoutingReport(impact_df) ==
    IF IsEmpty(impact_df) THEN ErrorReport ELSE FullReport

\* What the steps below leave alone.
flowRest == <<buildVars, monthVars, splitVars, fetchVars, fullVars, reportVars, tripVars, cleanVars, callVars, aggVars, baseVars, qualVars, ioVars, df,
              bad_call_counts, post_perf, flow_in>>

InitFlow ==
    /\ old_files = {} /\ months_with_rows = {} /\ parquet_files = {} /\ run_no = 0 /\ yr = 0 /\ mo = 0 /\ build_log = Idle
    /\ regular_days = {} /\ strategy = 0 /\ window = 0 /\ frames = Idle /\ last_err = Idle /\ failed = {} /\ month_result = Idle
    /\ month_days = 0 /\ start_d = 0 /\ end_d = 0 /\ chunks = 0 /\ cur = 0 /\ windows = Idle /\ strategies = Idle
    /\ max_retries = 0 /\ pause = 0 /\ attempt = 0 /\ provider_calls = Idle /\ sleeps = Idle /\ fetched = Idle
    /\ force_redownload = FALSE
    /\ targets_df = Idle /\ report_dict = Idle
    /\ written_details = Idle /\ csv_cells = Idle /\ loaded_details = Idle
    /\ raw_pitch_df = Idle /\ clean_pitch_df = Idle
    /\ flow_in \in [Batters -> FlowBatters]
    /\ \/ /\ pc = "flow_start"
          /\ baseline_df = Idle /\ impact_analysis = Idle /\ merged_df = Idle
       \/ /\ pc = "scores_call"
          /\ baseline_df \in Frames /\ impact_analysis \in Frames /\ merged_df = Idle
       \/ /\ pc = "report_call"
          /\ baseline_df = Idle /\ impact_analysis = Idle /\ merged_df \in Frames
    /\ calls_df = Idle /\ scouting_report = Idle /\ raised = FALSE
    /\ files = {} /\ steps = <<>> /\ outcome = "none"
    /\ pitch_df = Idle /\ result_df = Idle /\ runs = 0
    /\ pa_df = Idle /\ min_pa = 0 /\ filtered_df = Idle
    /\ calls_in = Idle /\ pa_metrics_df = Idle
    /\ df = Idle /\ bad_call_counts = Idle /\ post_perf = Idle
    /\ pa_table = Idle /\ clean_pas = Idle /\ baseline_stats = Idle

\* run_full_analysis, lines 319-326: with no bad call it returns
\* pd.DataFrame(), {}.
FlowAnalyzeCalls ==
    /\ pc = "flow_start"
    /\ calls_df' = PostCallFrame(flow_in)
    /\ IF IsEmpty(calls_df')
       THEN merged_df' = EmptyFrame /\ scouting_report' = NoReport
            /\ pc' = "flow_no_calls"
       ELSE UNCHANGED <<merged_df, scouting_report>> /\ pc' = "flow_calls"
    /\ UNCHANGED <<baseline_df, impact_analysis, raised, flowRest>>

\* Lines 329-333.
FlowBaseline ==
    /\ pc = "flow_calls"
    /\ baseline_df' = BaselineFrame(flow_in)
    /\ IF IsEmpty(baseline_df')
       THEN merged_df' = EmptyFrame /\ scouting_report' = NoReport
            /\ pc' = "flow_no_baseline"
       ELSE UNCHANGED <<merged_df, scouting_report>> /\ pc' = "flow_baseline"
    /\ UNCHANGED <<calls_df, impact_analysis, raised, flowRest>>

\* Lines 336-340.
FlowExtract ==
    /\ pc = "flow_baseline"
    /\ LET stage == ImpactFrame(flow_in, calls_df)
       IN  IF stage.raises
           THEN raised' = TRUE /\ pc' = "flow_raised"
                /\ UNCHANGED <<impact_analysis, merged_df, scouting_report>>
           ELSE /\ impact_analysis' = stage.frame
                /\ raised' = FALSE
                /\ IF IsEmpty(stage.frame)
                   THEN merged_df' = EmptyFrame /\ scouting_report' = NoReport
                        /\ pc' = "flow_no_impact"
                   ELSE UNCHANGED <<merged_df, scouting_report>>
                        /\ pc' = "flow_impact"
    /\ UNCHANGED <<calls_df, baseline_df, flowRest>>

\* Lines 343-358: the scores, the report, the two files, the return.
FlowScoreAndReport ==
    /\ pc = "flow_impact"
    /\ LET stage == ImpactScores(flow_in, baseline_df, impact_analysis)
       IN  IF stage.raises
           THEN raised' = TRUE /\ pc' = "flow_raised"
                /\ UNCHANGED <<merged_df, scouting_report>>
           ELSE /\ merged_df' = stage.frame
                /\ scouting_report' = ScoutingReport(stage.frame)
                /\ raised' = FALSE
                /\ pc' = "flow_returned"
    /\ UNCHANGED <<calls_df, baseline_df, impact_analysis, flowRest>>

\* calculate_psychological_impact_scores(baseline_df, impact_df), any frames.
CallImpactScores ==
    /\ pc = "scores_call"
    /\ LET stage == ImpactScores(flow_in, baseline_df, impact_analysis)
       IN  IF stage.raises
           THEN raised' = TRUE /\ pc' = "flow_raised" /\ UNCHANGED merged_df
           ELSE merged_df' = stage.frame /\ raised' = FALSE
                /\ pc' = "scores_returned"
    /\ UNCHANGED <<calls_df, baseline_df, impact_analysis, scouting_report, flowRest>>

\* generate_scouting_report(impact_df), any frame.
CallScoutingReport ==
    /\ pc = "report_call"
    /\ scouting_report' = ScoutingReport(merged_df)
    /\ pc' = "report_returned"
    /\ UNCHANGED <<calls_df, baseline_df, impact_analysis, merged_df, raised, flowRest>>

NextFlow ==
    \/ FlowAnalyzeCalls
    \/ FlowBaseline
    \/ FlowExtract
    \/ FlowScoreAndReport
    \/ CallImpactScores
    \/ CallScoutingReport

SpecFlow == InitFlow /\ [][NextFlow]_vars

\* run_full_analysis has returned.
FlowReturned ==
    pc \in {"flow_no_calls", "flow_no_baseline", "flow_no_impact", "flow_returned"}

\* The batters with a row in each stage's table, read off the processed table.
WithAdverseCall == {b \in Batters : flow_in[b].adverse}
AtFloor == {b \in Batters : flow_in[b].clean = "floor"}
WithRecord == {b \in Batters : flow_in[b].adverse /\ flow_in[b].later}
Retainable == {b \in AtFloor \cap WithRecord : flow_in[b].significant}

\* C19: when a stage produces zero rows (no adverse event, no batter at the
\* baseline floor, no post-bad-call record, no batter common to both, none
\* passing the retention filter), nothing raises and run_full_analysis
\* returns an empty table with an empty or error report; the scorer returns
\* an empty table if either input is empty, and generate_scouting_report
\* returns the error object on an empty table.
C19_EmptyStagesShortCircuit ==
    /\ ~raised /\ pc # "flow_raised"
    /\ pc \in {"flow_start", "flow_calls", "flow_baseline", "flow_impact",
               "scores_call", "report_call"} => ENABLED NextFlow
    /\ FlowReturned =>
          (Retainable = {} =>
              /\ IsEmpty(merged_df)
              /\ scouting_report \in {NoReport, ErrorReport})
    /\ pc = "scores_returned" =>
          ((IsEmpty(baseline_df) \/ IsEmpty(impact_analysis)) => merged_df = EmptyFrame)
    /\ pc = "report_returned" =>
          (IsEmpty(merged_df) => scouting_report = ErrorReport)

C19_Witness ==
    /\ pc = "flow_returned"
    /\ WithAdverseCall # {} /\ AtFloor # {} /\ WithRecord # {}
    /\ AtFloor \cap WithRecord = {}
    /\ IsEmpty(merged_df) /\ merged_df.columns
    /\ scouting_report = ErrorReport

\* ---------------------------------------------------------------------------
\* Input files: load_raw_data, load_processed_data and their callers
\* ---------------------------------------------------------------------------

Files == {"raw", "processed", "undervalued_targets.csv",
          "psychological_impact_analysis.json", "scouting_dashboard.html"}

\* What run_full_analysis comes to once the file is read: it returns early,
\* or it writes a table without rows, or it writes a table with rows.
Analyses == {"early", "empty", "rows"}

FileNotFound == "FileNotFoundError"

\* Path.exists() is the only step before the raise.
LoadRawData(fs) ==
    IF "raw" \notin fs
    THEN [outcome |-> FileNotFound, steps |-> <<"raw.exists">>, files |-> fs]
    ELSE [outcome |-> "df", steps |-> <<"raw.exists", "read_csv">>, files |-> fs]

LoadProcessedData(fs) ==
    IF "processed" \notin fs
    THEN [outcome |-> FileNotFound, steps |-> <<"processed.exists">>, files |-> fs]
    ELSE [outcome |-> "df", steps |-> <<"processed.exists", "read_csv", "eval">>,
          files |-> fs]

\* process_full_dataset: the exception of load_raw_data is not caught.
ProcessFullDataset(fs) ==
    LET raw_df == LoadRawData(fs)
    IN  IF raw_df.outcome = FileNotFound THEN raw_df
        ELSE [outcome |-> "final_df",
              steps |-> raw_df.steps \o
                        <<"clean_data", "determine_correct_call",
                          "create_plate_appearance_groups", "calculate_pa_metrics",
                          "filter_qualified_batters", "to_csv">>,
              files |-> fs \cup {"processed"}]

\* run_full_analysis: the exception of load_processed_data is not caught; the
\* two report files are written unless a stage came out empty.
RunFullAnalysis(fs, analysis) ==
    LET loaded == LoadProcessedData(fs)
    IN  IF loaded.outcome = FileNotFound THEN loaded
        ELSE IF analysis = "early"
        THEN [outcome |-> "returned",
              steps |-> loaded.steps \o <<"analysis">>, files |-> fs]
        ELSE [outcome |-> "returned",
              steps |-> loaded.steps \o <<"analysis", "json.dump", "to_csv">>,
              files |-> fs \cup {"undervalued_targets.csv",
                                 "psychological_impact_analysis.json"}]

\* generate_scouting_dashboard catches the FileNotFoundError of its two loads
\* and returns; it returns as well when the table has no rows.
GenerateScoutingDashboard(fs, has_rows) ==
    IF "undervalued_targets.csv" \notin fs
    THEN [outcome |-> "returned", steps |-> <<"csv.exists">>, files |-> fs]
    ELSE IF "psychological_impact_analysis.json" \notin fs
    THEN [outcome |-> "returned",
          steps |-> <<"csv.exists", "read_csv", "json.exists">>, files |-> fs]
    ELSE IF ~has_rows
    THEN [outcome |-> "returned",
          steps |-> <<"csv.exists", "read_csv", "json.exists", "json.load">>,
          files |-> fs]
    ELSE [outcome |-> "returned",
          steps |-> <<"csv.exists", "read_csv", "json.exists", "json.load",
                      "charts", "write_html">>,
          files |-> fs \cup {"scouting_dashboard.html"}]

\* The mutant of RunAnalysisOnly: no look at the processed file first.
RunAnalysisOnlyUnchecked(fs, analysis, stale_rows) ==
    LET run == RunFullAnalysis(fs, analysis)
        has_rows == IF analysis = "early" THEN stale_rows ELSE analysis = "rows"
        report == GenerateScoutingDashboard(run.files, has_rows)
    IN  IF run.outcome = FileNotFound THEN run
        ELSE [outcome |-> "True", steps |-> run.steps \o report.steps,
              files |-> report.files]

\* run_analysis_only: False when the processed file is missing, else the
\* analysis, the dashboard and True. stale_rows: whether a csv left by an
\* earlier run holds rows.
RunAnalysisOnly(fs, analysis, stale_rows) ==
    IF "processed" \notin fs
    THEN [outcome |-> "False", steps |-> <<"processed.exists">>, files |-> fs]
    ELSE LET run == RunFullAnalysis(fs, analysis)
             has_rows == IF analysis = "early" THEN stale_rows ELSE analysis = "rows"
             report == GenerateScoutingDashboard(run.files, has_rows)
         IN  [outcome |-> "True",
              steps |-> <<"processed.exists">> \o run.steps \o report.steps,
              files |-> report.files]

ioRest == <<buildVars, monthVars, splitVars, fetchVars, fullVars, reportVars, tripVars, cleanVars, callVars, aggVars, extVars, baseVars, scoreVars, qualVars, flowVars>>

InitIo ==
    /\ old_files = {} /\ months_with_rows = {} /\ parquet_files = {} /\ run_no = 0 /\ yr = 0 /\ mo = 0 /\ build_log = Idle
    /\ regular_days = {} /\ strategy = 0 /\ window = 0 /\ frames = Idle /\ last_err = Idle /\ failed = {} /\ month_result = Idle
    /\ month_days = 0 /\ start_d = 0 /\ end_d = 0 /\ chunks = 0 /\ cur = 0 /\ windows = Idle /\ strategies = Idle
    /\ max_retries = 0 /\ pause = 0 /\ attempt = 0 /\ provider_calls = Idle /\ sleeps = Idle /\ fetched = Idle
    /\ force_redownload = FALSE
    /\ targets_df = Idle /\ report_dict = Idle
    /\ written_details = Idle /\ csv_cells = Idle /\ loaded_details = Idle
    /\ raw_pitch_df = Idle /\ clean_pitch_df = Idle
    /\ pc = "io_start"
    /\ files \in SUBSET Files
    /\ steps = <<>> /\ outcome = "none"
    /\ flow_in = Idle /\ scouting_report = Idle /\ raised = FALSE
    /\ pitch_df = Idle /\ result_df = Idle /\ runs = 0
    /\ pa_df = Idle /\ min_pa = 0 /\ filtered_df = Idle
    /\ calls_in = Idle /\ pa_metrics_df = Idle
    /\ df = Idle /\ calls_df = Idle /\ impact_analysis = Idle
    /\ bad_call_counts = Idle /\ post_perf = Idle
    /\ pa_table = Idle /\ clean_pas = Idle /\ baseline_stats = Idle
    /\ baseline_df = Idle /\ merged_df = Idle

\* The call is made and ends as its result says.
Ends(result, at) ==
    /\ pc = "io_start"
    /\ pc' = at
    /\ files' = result.files /\ steps' = result.steps /\ outcome' = result.outcome
    /\ UNCHANGED ioRest

CallLoadRawData == Ends(LoadRawData(files), "load_raw_data")

CallLoadProcessedData == Ends(LoadProcessedData(files), "load_processed_data")

CallProcessFullDataset == Ends(ProcessFullDataset(files), "process_full_dataset")

CallRunFullAnalysis ==
    \E analysis \in Analyses : Ends(RunFullAnalysis(files, analysis), "run_full_analysis")

CallGenerateScoutingDashboard ==
    \E has_rows \in BOOLEAN :
        Ends(GenerateScoutingDashboard(files, has_rows), "generate_scouting_dashboard")

CallRunAnalysisOnly ==
    \E analysis \in Analyses, stale_rows \in BOOLEAN :
        Ends(RunAnalysisOnly(files, analysis, stale_rows), "run_analysis_only")

NextIo ==
    \/ CallLoadRawData
    \/ CallLoadProcessedData
    \/ CallProcessFullDataset
    \/ CallRunFullAnalysis
    \/ CallGenerateScoutingDashboard
    \/ CallRunAnalysisOnly

SpecIo == InitIo /\ [][NextIo]_vars

\* The steps that compute or write.
Working == {"clean_data", "determine_correct_call", "create_plate_appearance_groups",
            "calculate_pa_metrics", "filter_qualified_batters", "analysis",
            "charts", "to_csv", "json.dump", "write_html"}

StepsTaken == {steps[i] : i \in 1..Len(steps)}

\* The one look at the file and nothing else.
OnlyLookedFor(name) == steps = <<name>>

\* C20: with the input file absent, load_raw_data and load_processed_data
\* raise FileNotFoundError, and so do process_full_dataset and
\* run_full_analysis, after one look at the file and before any computing or
\* writing; run_analysis_only returns False without the analysis or the
\* dashboard; no call looks twice.
C20_MissingInputFailsFirst ==
    /\ pc \in {"load_raw_data", "process_full_dataset"} /\ "raw" \notin files =>
          outcome = FileNotFound /\ OnlyLookedFor("raw.exists")
    /\ pc \in {"load_processed_data", "run_full_analysis"} /\ "processed" \notin files =>
          outcome = FileNotFound /\ OnlyLookedFor("processed.exists")
    /\ pc = "run_analysis_only" /\ "processed" \notin files =>
          outcome = "False" /\ OnlyLookedFor("processed.exists")
    /\ outcome \in {FileNotFound, "False"} => StepsTaken \cap Working = {}

C20_Witness ==
    /\ pc = "run_analysis_only"
    /\ "processed" \notin files
    /\ "undervalued_targets.csv" \in files
    /\ "psychological_impact_analysis.json" \in files
    /\ "scouting_dashboard.html" \notin files
    /\ outcome = "False"

\* ---------------------------------------------------------------------------
\* clean_data
\* ---------------------------------------------------------------------------

\* Longest raw table handed in.
MaxRawRows == 2

\* The columns dropna looks at (line 59-60).
RequiredColumns == {"plate_x", "plate_z", "sz_top", "sz_bot", "batter",
                    "balls", "strikes", "description"}

\* The columns create_plate_appearance_groups builds pa_id from.
PaKeyColumns == {"game_date", "batter", "at_bat_number"}

\* The (type, description) pairs of Statcast pitches.
PitchKinds == {<<"B", "ball">>, <<"B", "blocked_ball">>, <<"S", "called_strike">>,
               <<"S", "foul">>, <<"X", "hit_into_play">>}

\* A raw row: its kind and the columns whose value is missing (NaN); a row
\* lacks no column or one.
RawRows ==
    {[type |-> k[1], description |-> k[2], missing |-> m] :
        k \in PitchKinds,
        m \in {{}} \cup {{c} : c \in RequiredColumns \cup PaKeyColumns}}

RawTables == UNION {[1..n -> RawRows] : n \in 1..MaxRawRows}

\* Lines 51 and 54-56; a missing description is in neither list.
IsCalledPitch(row) ==
    /\ row.type \in {"B", "S"}
    /\ "description" \notin row.missing
    /\ row.description \in {"called_strike", "ball", "blocked_ball"}

\* clean_data: the two isin filters, then dropna(subset=required_columns).
CleanData(frame) ==
    SelectSeq(SelectSeq(frame, IsCalledPitch),
              LAMBDA row : row.missing \cap RequiredColumns = {})

InitClean ==
    /\ old_files = {} /\ months_with_rows = {} /\ parquet_files = {} /\ run_no = 0 /\ yr = 0 /\ mo = 0 /\ build_log = Idle
    /\ regular_days = {} /\ strategy = 0 /\ window = 0 /\ frames = Idle /\ last_err = Idle /\ failed = {} /\ month_result = Idle
    /\ month_days = 0 /\ start_d = 0 /\ end_d = 0 /\ chunks = 0 /\ cur = 0 /\ windows = Idle /\ strategies = Idle
    /\ max_retries = 0 /\ pause = 0 /\ attempt = 0 /\ provider_calls = Idle /\ sleeps = Idle /\ fetched = Idle
    /\ force_redownload = FALSE
    /\ targets_df = Idle /\ report_dict = Idle
    /\ written_details = Idle /\ csv_cells = Idle /\ loaded_details = Idle
    /\ pc = "clean_in"
    /\ raw_pitch_df \in RawTables
    /\ clean_pitch_df = Idle
    /\ pitch_df = Idle /\ result_df = Idle /\ runs = 0
    /\ pa_df = Idle /\ min_pa = 0 /\ filtered_df = Idle
    /\ flow_in = Idle /\ scouting_report = Idle /\ raised = FALSE
    /\ files = {} /\ steps = <<>> /\ outcome = "none"
    /\ calls_in = Idle /\ pa_metrics_df = Idle
    /\ df = Idle /\ calls_df = Idle /\ impact_analysis = Idle
    /\ bad_call_counts = Idle /\ post_perf = Idle
    /\ pa_table = Idle /\ clean_pas = Idle /\ baseline_stats = Idle
    /\ baseline_df = Idle /\ merged_df = Idle

cleanRest == <<callVars, aggVars, extVars, baseVars, scoreVars, qualVars,
               flowVars, ioVars, tripVars, reportVars, fullVars, fetchVars, splitVars, monthVars, buildVars>>

RunCleanData ==
    /\ pc = "clean_in"
    /\ clean_pitch_df' = CleanData(raw_pitch_df)
    /\ pc' = "clean_done"
    /\ UNCHANGED <<raw_pitch_df, cleanRest>>

NextClean == RunCleanData

SpecClean == InitClean /\ [][NextClean]_vars

Cleaned == pc = "clean_done"

RowsIn(frame) == {frame[i] : i \in 1..Len(frame)}

\* The fields the claim requires of a row that goes on to the Call Corrector
\* and the PA Aggregator: coordinates, zone bounds and the PA key.
NeededDownstream == {"plate_x", "plate_z", "sz_top", "sz_bot"} \cup PaKeyColumns

\* What clean_data does keep: it returns, and the rows it returns are the
\* called pitches of the input that lack none of the eight required columns.
KeepsCalledRowsWithRequiredColumns ==
    Cleaned =>
        /\ \A row \in RowsIn(clean_pitch_df) :
              IsCalledPitch(row) /\ row.missing \cap RequiredColumns = {}
        /\ \A row \in RowsIn(raw_pitch_df) :
              IsCalledPitch(row) /\ row.missing \cap RequiredColumns = {}
                  => row \in RowsIn(clean_pitch_df)

\* C21: clean_data excludes every row lacking plate coordinates, zone bounds
\* or an identifier, and every row it retains is a called pitch whose
\* coordinates, zone bounds and PA key are defined.
C21_RetainedRowsAreComplete ==
    Cleaned =>
        \A row \in RowsIn(clean_pitch_df) :
            IsCalledPitch(row) /\ row.missing \cap NeededDownstream = {}

\* ---------------------------------------------------------------------------
\* The processed file: to_csv in process_full_dataset, read_csv and eval in
\* load_processed_data
\* ---------------------------------------------------------------------------

\* Longest incorrect_call_details list of a PA.
MaxDetails == 2

\* The PAs of the table.
TripPaIds == {1, 2}

\* Python values as iterrows hands them over: int, float, bool, str; a float
\* is a number or nan.
PyInt(n) == [type |-> "int", number |-> n, text |-> ""]
PyFloat(n) == [type |-> "float", number |-> n, text |-> ""]
PyNaN == [type |-> "float", number |-> 0, text |-> "nan"]
PyBool(b) == [type |-> "bool", number |-> IF b THEN 1 ELSE 0, text |-> ""]
PyStr(s) == [type |-> "str", number |-> 0, text |-> s]

\* pitch_number of a pitch: an int column, a float column once a value is
\* missing, and the missing value itself (the column is not among
\* required_columns).
PitchNumbers == {PyInt(1), PyFloat(2), PyNaN}

\* The dict of lines 156-164 for an incorrect call, a strike out of the zone
\* (adverse) or a ball in it.
CallDetail(pitch_number, adverse, prior_incorrect) ==
    <<[key |-> "pitch_number", value |-> pitch_number],
      [key |-> "balls", value |-> PyInt(3)],
      [key |-> "strikes", value |-> PyInt(IF adverse THEN 1 ELSE 2)],
      [key |-> "favors_batter", value |-> PyFloat(IF adverse THEN 0 ELSE 1)],
      [key |-> "prior_incorrect_calls", value |-> PyInt(prior_incorrect)],
      [key |-> "description",
       value |-> PyStr(IF adverse THEN "called_strike" ELSE "ball")],
      [key |-> "in_zone", value |-> PyBool(~adverse)]>>

\* The lists calculate_pa_metrics can build: the i-th record has i - 1
\* incorrect calls before it.
WrittenLists ==
    UNION {{[i \in 1..n |-> CallDetail(p[i], a[i], i - 1)] :
               p \in [1..n -> PitchNumbers], a \in [1..n -> BOOLEAN]} :
           n \in 0..MaxDetails}

\* repr of a value: the literal Python prints.
PyRepr(v) ==
    CASE v.type = "int" -> [token |-> "integer", number |-> v.number, text |-> ""]
      [] v.type = "float" /\ v.text = "nan" ->
            [token |-> "name", number |-> 0, text |-> "nan"]
      [] v.type = "float" -> [token |-> "decimal", number |-> v.number, text |-> ""]
      [] v.type = "bool" ->
            [token |-> "name", number |-> 0,
             text |-> IF v.number = 1 THEN "True" ELSE "False"]
      [] v.type = "str" -> [token |-> "quoted", number |-> 0, text |-> v.text]

\* The names eval finds: builtins and the globals of umpire_analyzer.
KnownNames == {"True", "False", "None", "pd", "np", "json", "logging", "Path"}

NameError == "NameError"

\* eval of a literal; a name that is not bound raises NameError.
PyEval(t) ==
    CASE t.token = "integer" -> PyInt(t.number)
      [] t.token = "decimal" -> PyFloat(t.number)
      [] t.token = "quoted" -> PyStr(t.text)
      [] t.token = "name" /\ t.text = "True" -> PyBool(TRUE)
      [] t.token = "name" /\ t.text = "False" -> PyBool(FALSE)
      [] OTHER -> [type |-> NameError, number |-> 0, text |-> t.text]

\* str(list) as to_csv writes it: per dict the keys and literals in order.
StrOfList(details) ==
    [i \in 1..Len(details) |->
        [j \in 1..Len(details[i]) |->
            [key |-> details[i][j].key, literal |-> PyRepr(details[i][j].value)]]]

\* Whether eval of the cell meets a name that is not bound.
EvalRaises(cell) ==
    \E i \in 1..Len(cell) : \E j \in 1..Len(cell[i]) :
        cell[i][j].literal.token = "name" /\ cell[i][j].literal.text \notin KnownNames

\* Line 38: eval(x) if pd.notna(x) and x != '[]' else [].
EvalCell(cell) ==
    IF cell = <<>> THEN <<>>
    ELSE [i \in 1..Len(cell) |->
            [j \in 1..Len(cell[i]) |->
                [key |-> cell[i][j].key, value |-> PyEval(cell[i][j].literal)]]]

InitTrip ==
    /\ old_files = {} /\ months_with_rows = {} /\ parquet_files = {} /\ run_no = 0 /\ yr = 0 /\ mo = 0 /\ build_log = Idle
    /\ regular_days = {} /\ strategy = 0 /\ window = 0 /\ frames = Idle /\ last_err = Idle /\ failed = {} /\ month_result = Idle
    /\ month_days = 0 /\ start_d = 0 /\ end_d = 0 /\ chunks = 0 /\ cur = 0 /\ windows = Idle /\ strategies = Idle
    /\ max_retries = 0 /\ pause = 0 /\ attempt = 0 /\ provider_calls = Idle /\ sleeps = Idle /\ fetched = Idle
    /\ force_redownload = FALSE
    /\ targets_df = Idle /\ report_dict = Idle
    /\ pc = "trip_table"
    /\ written_details \in [TripPaIds -> WrittenLists]
    /\ csv_cells = Idle /\ loaded_details = Idle
    /\ raw_pitch_df = Idle /\ clean_pitch_df = Idle
    /\ pitch_df = Idle /\ result_df = Idle /\ runs = 0
    /\ pa_df = Idle /\ min_pa = 0 /\ filtered_df = Idle
    /\ flow_in = Idle /\ scouting_report = Idle /\ raised = FALSE
    /\ files = {} /\ steps = <<>> /\ outcome = "none"
    /\ calls_in = Idle /\ pa_metrics_df = Idle
    /\ df = Idle /\ calls_df = Idle /\ impact_analysis = Idle
    /\ bad_call_counts = Idle /\ post_perf = Idle
    /\ pa_table = Idle /\ clean_pas = Idle /\ baseline_stats = Idle
    /\ baseline_df = Idle /\ merged_df = Idle

tripRest == <<callVars, aggVars, extVars, baseVars, scoreVars, qualVars,
              flowVars, ioVars, cleanVars, reportVars, fullVars, fetchVars, splitVars, monthVars, buildVars>>

\* process_full_dataset, line 208.
SaveProcessed ==
    /\ pc = "trip_table"
    /\ csv_cells' = [p \in TripPaIds |-> StrOfList(written_details[p])]
    /\ pc' = "trip_saved"
    /\ UNCHANGED <<written_details, loaded_details, tripRest>>

\* load_processed_data, lines 34-42: the apply raises when one cell does.
LoadProcessed ==
    /\ pc = "trip_saved"
    /\ IF \E p \in TripPaIds : EvalRaises(csv_cells[p])
       THEN pc' = "trip_raised" /\ UNCHANGED loaded_details
       ELSE /\ loaded_details' = [p \in TripPaIds |-> EvalCell(csv_cells[p])]
            /\ pc' = "trip_loaded"
    /\ UNCHANGED <<written_details, csv_cells, tripRest>>

NextTrip == SaveProcessed \/ LoadProcessed

SpecTrip == InitTrip /\ [][NextTrip]_vars

\* A pitch_number that is missing is in one of the written records.
HasMissingPitchNumber ==
    \E p \in TripPaIds : \E i \in 1..Len(written_details[p]) :
        written_details[p][i][1].value = PyNaN

\* What the round trip does keep: the load raises exactly when a written
\* record holds a missing pitch_number, and otherwise returns the written
\* lists, record for record and value for value, [] for [].
RoundTripOfDefinedValues ==
    /\ pc = "trip_raised" => HasMissingPitchNumber
    /\ pc = "trip_loaded" =>
          ~HasMissingPitchNumber /\ loaded_details = written_details

\* C22: reloading the persisted table gives, for every PA, the list that was
\* written: as many records, in the same order, with the same fields and
\* values; an empty list reloads as an empty list.
C22_RoundTripIsIdentity ==
    pc \notin {"trip_table", "trip_saved"} =>
        /\ pc = "trip_loaded"
        /\ loaded_details = written_details

\* ---------------------------------------------------------------------------
\* generate_scouting_report on a table with rows
\* ---------------------------------------------------------------------------

\* head(25), and the two thresholds 0.020 and 0.010 in units of 0.0001.
TopTargets == 25
HighImpactThreshold == 200
MediumImpactThreshold == 100

\* Longest Impact Score table handed in.
MaxTargets == 26

\* Projected improvements around the two thresholds, in units of 0.0001.
Improvements == <<200, 199, 100, 50>>

\* The tables the scorer returns: sorted by projected improvement, highest
\* first; counts[v] rows carry the v-th improvement. The batter of a row is
\* its rank.
TargetsTable(counts) ==
    LET upto(v) == IF v = 0 THEN 0
                   ELSE IF v = 1 THEN counts[1]
                   ELSE IF v = 2 THEN counts[1] + counts[2]
                   ELSE IF v = 3 THEN counts[1] + counts[2] + counts[3]
                   ELSE counts[1] + counts[2] + counts[3] + counts[4]
    IN  [i \in 1..upto(4) |->
            [batter |-> i,
             projected_xwoba_improvement |->
                 Improvements[CHOOSE v \in 1..4 : upto(v - 1) < i /\ i <= upto(v)]]]

\* The mutant of HeadRows: every row.
HeadRowsAll(frame, n) == frame

\* DataFrame.head(n)
HeadRows(frame, n) ==
    SubSeq(frame, 1, IF Len(frame) < n THEN Len(frame) ELSE n)

\* Lines 289-293.
HighImpact(frame) ==
    SelectSeq(frame, LAMBDA row : row.projected_xwoba_improvement >= HighImpactThreshold)

MediumImpact(frame) ==
    SelectSeq(frame, LAMBDA row :
        /\ row.projected_xwoba_improvement >= MediumImpactThreshold
        /\ row.projected_xwoba_improvement < HighImpactThreshold)

\* Series.max()
MaxImprovement(frame) ==
    CHOOSE v \in {frame[i].projected_xwoba_improvement : i \in DOMAIN frame} :
        \A i \in DOMAIN frame : frame[i].projected_xwoba_improvement <= v

\* The dict of lines 296-313 for a table with rows, as far as it depends on
\* batter and projected_xwoba_improvement (the means and the median are left
\* out).
GenerateScoutingReport(frame) ==
    [scouting_summary |->
         [total_players_analyzed |-> Len(frame),
          high_impact_players |-> Len(HighImpact(frame)),
          medium_impact_players |-> Len(MediumImpact(frame)),
          max_xwoba_improvement |-> MaxImprovement(frame)],
     top_25_targets |-> HeadRows(frame, TopTargets),
     high_impact_targets |-> HighImpact(frame)]

InitReport ==
    /\ old_files = {} /\ months_with_rows = {} /\ parquet_files = {} /\ run_no = 0 /\ yr = 0 /\ mo = 0 /\ build_log = Idle
    /\ regular_days = {} /\ strategy = 0 /\ window = 0 /\ frames = Idle /\ last_err = Idle /\ failed = {} /\ month_result = Idle
    /\ month_days = 0 /\ start_d = 0 /\ end_d = 0 /\ chunks = 0 /\ cur = 0 /\ windows = Idle /\ strategies = Idle
    /\ max_retries = 0 /\ pause = 0 /\ attempt = 0 /\ provider_calls = Idle /\ sleeps = Idle /\ fetched = Idle
    /\ force_redownload = FALSE
    /\ pc = "report_in"
    /\ \E a \in 0..MaxTargets : \E b \in 0..(MaxTargets - a) :
       \E c \in 0..(MaxTargets - a - b) :
       \E d \in (IF a + b + c = 0 THEN 1 ELSE 0)..(MaxTargets - a - b - c) :
           targets_df = TargetsTable(<<a, b, c, d>>)
    /\ report_dict = Idle
    /\ written_details = Idle /\ csv_cells = Idle /\ loaded_details = Idle
    /\ raw_pitch_df = Idle /\ clean_pitch_df = Idle
    /\ pitch_df = Idle /\ result_df = Idle /\ runs = 0
    /\ pa_df = Idle /\ min_pa = 0 /\ filtered_df = Idle
    /\ flow_in = Idle /\ scouting_report = Idle /\ raised = FALSE
    /\ files = {} /\ steps = <<>> /\ outcome = "none"
    /\ calls_in = Idle /\ pa_metrics_df = Idle
    /\ df = Idle /\ calls_df = Idle /\ impact_analysis = Idle
    /\ bad_call_counts = Idle /\ post_perf = Idle
    /\ pa_table = Idle /\ clean_pas = Idle /\ baseline_stats = Idle
    /\ baseline_df = Idle /\ merged_df = Idle

reportRest == <<callVars, aggVars, extVars, baseVars, scoreVars, qualVars,
                flowVars, ioVars, cleanVars, tripVars, fullVars, fetchVars, splitVars, monthVars, buildVars>>

RunGenerateScoutingReport ==
    /\ pc = "report_in"
    /\ report_dict' = GenerateScoutingReport(targets_df)
    /\ pc' = "report_out"
    /\ UNCHANGED <<targets_df, reportRest>>

NextReport == RunGenerateScoutingReport

SpecReport == InitReport /\ [][NextReport]_vars

Improvement(i) == targets_df[i].projected_xwoba_improvement

\* C23: for a table with rows that the scorer returned, the report holds
\* total_players_analyzed = the number of rows, as top 25 the min(25, n) rows
\* of greatest projected improvement in descending order, as high-impact
\* count the number of rows at or above 0.020, as medium-impact count the
\* number of rows from 0.010 up to but not including 0.020; no row is in both
\* tiers.
C23_ReportCounts ==
    pc = "report_out" =>
        LET n == Len(targets_df)
            top == report_dict.top_25_targets
            summary == report_dict.scouting_summary
            high == {i \in 1..n : Improvement(i) >= HighImpactThreshold}
            medium == {i \in 1..n : /\ Improvement(i) >= MediumImpactThreshold
                                    /\ Improvement(i) < HighImpactThreshold}
        IN  /\ summary.total_players_analyzed = n
            /\ Len(top) = (IF n < TopTargets THEN n ELSE TopTargets)
            /\ \A k \in DOMAIN top : top[k] = targets_df[k]
            /\ \A k \in DOMAIN top : \A i \in 1..n :
                  i > Len(top) => Improvement(i) <= top[k].projected_xwoba_improvement
            /\ \A k \in 1..(Len(top) - 1) :
                  top[k].projected_xwoba_improvement
                      >= top[k + 1].projected_xwoba_improvement
            /\ summary.high_impact_players = Cardinality(high)
            /\ summary.medium_impact_players = Cardinality(medium)
            /\ high \cap medium = {}

C23_Witness ==
    /\ pc = "report_out"
    /\ Len(targets_df) > TopTargets
    /\ Len(report_dict.top_25_targets) = TopTargets
    /\ report_dict.scouting_summary.high_impact_players > 0
    /\ report_dict.scouting_summary.medium_impact_players > 1
    /\ \E i \in DOMAIN targets_df : Improvement(i) = HighImpactThreshold
    /\ \E i \in DOMAIN targets_df : Improvement(i) = MediumImpactThreshold
    /\ \E i \in DOMAIN targets_df : Improvement(i) < MediumImpactThreshold

\* ---------------------------------------------------------------------------
\* run_full_pipeline: the four steps
\* ---------------------------------------------------------------------------

\* The steps in the order of the code; "empty" is logged after a step whose
\* result has no rows.
PipelineSteps == <<"collection", "processing", "analysis", "report">>

\* collect_season_data is not part of these sources: it returns a frame with
\* or without rows, and the raw file is there afterwards or not.
CollectSeasonData(fs) ==
    {[empty |-> e, files |-> f] : e \in BOOLEAN, f \in {fs, fs \cup {"raw"}}}

\* The mutant of EmptyAnalysis: the empty check of line 93 left out.
EmptyAnalysisIgnored(analysis) == FALSE

\* analysis_df.empty (line 93): run_full_analysis returned early or the
\* scorer kept no row.
EmptyAnalysis(analysis) ==
    analysis \in {"early", "empty"}

InitFull ==
    /\ old_files = {} /\ months_with_rows = {} /\ parquet_files = {} /\ run_no = 0 /\ yr = 0 /\ mo = 0 /\ build_log = Idle
    /\ regular_days = {} /\ strategy = 0 /\ window = 0 /\ frames = Idle /\ last_err = Idle /\ failed = {} /\ month_result = Idle
    /\ month_days = 0 /\ start_d = 0 /\ end_d = 0 /\ chunks = 0 /\ cur = 0 /\ windows = Idle /\ strategies = Idle
    /\ max_retries = 0 /\ pause = 0 /\ attempt = 0 /\ provider_calls = Idle /\ sleeps = Idle /\ fetched = Idle
    /\ pc = "full_start"
    /\ files \in SUBSET Files
    /\ force_redownload \in BOOLEAN
    /\ steps = <<>> /\ outcome = "none"
    /\ targets_df = Idle /\ report_dict = Idle
    /\ written_details = Idle /\ csv_cells = Idle /\ loaded_details = Idle
    /\ raw_pitch_df = Idle /\ clean_pitch_df = Idle
    /\ pitch_df = Idle /\ result_df = Idle /\ runs = 0
    /\ pa_df = Idle /\ min_pa = 0 /\ filtered_df = Idle
    /\ flow_in = Idle /\ scouting_report = Idle /\ raised = FALSE
    /\ calls_in = Idle /\ pa_metrics_df = Idle
    /\ df = Idle /\ calls_df = Idle /\ impact_analysis = Idle
    /\ bad_call_counts = Idle /\ post_perf = Idle
    /\ pa_table = Idle /\ clean_pas = Idle /\ baseline_stats = Idle
    /\ baseline_df = Idle /\ merged_df = Idle

fullRest == <<buildVars, monthVars, splitVars, fetchVars, callVars, aggVars, extVars, baseVars, scoreVars, qualVars,
              flowVars, cleanVars, tripVars, reportVars, force_redownload>>

\* The step has run and its result had rows or not (empty); the pipeline
\* returns False when the check after the step says so (stops).
StepEnds(step, empty, stops, fs, next) ==
    /\ files' = fs
    /\ steps' = IF empty THEN steps \o <<step, "empty">> ELSE Append(steps, step)
    /\ IF stops
       THEN outcome' = "False" /\ pc' = "full_returned"
       ELSE outcome' = outcome /\ pc' = next

\* Lines 52-67.
StepCollection ==
    /\ pc = "full_start"
    /\ IF "raw" \notin files \/ force_redownload
       THEN \E raw_df \in CollectSeasonData(files) :
               StepEnds("collection", raw_df.empty, raw_df.empty, raw_df.files,
                        "full_collected")
       ELSE pc' = "full_collected" /\ UNCHANGED ioVars
    /\ UNCHANGED fullRest

\* Lines 69-84: process_full_dataset writes the processed file before the
\* empty check; its FileNotFoundError is not caught.
StepProcessing ==
    /\ pc = "full_collected"
    /\ IF "processed" \notin files \/ force_redownload
       THEN LET processed_df == ProcessFullDataset(files)
            IN  IF processed_df.outcome = FileNotFound
                THEN /\ steps' = Append(steps, "processing")
                     /\ outcome' = FileNotFound
                     /\ pc' = "full_returned"
                     /\ UNCHANGED files
                ELSE \E empty \in BOOLEAN :
                        StepEnds("processing", empty, empty, processed_df.files,
                                 "full_processed")
       ELSE pc' = "full_processed" /\ UNCHANGED ioVars
    /\ UNCHANGED fullRest

\* Lines 86-95.
StepAnalysis ==
    /\ pc = "full_processed"
    /\ \E analysis \in Analyses :
          LET run == RunFullAnalysis(files, analysis)
          IN  IF run.outcome = FileNotFound
              THEN /\ steps' = Append(steps, "analysis")
                   /\ outcome' = FileNotFound
                   /\ pc' = "full_returned"
                   /\ UNCHANGED files
              ELSE StepEnds("analysis", analysis # "rows", EmptyAnalysis(analysis),
                            run.files, "full_analysed")
    /\ UNCHANGED fullRest

\* Lines 109-126: the dashboard, then True.
StepReport ==
    /\ pc = "full_analysed"
    /\ files' = GenerateScoutingDashboard(files, TRUE).files
    /\ steps' = Append(steps, "report")
    /\ outcome' = "True"
    /\ pc' = "full_returned"
    /\ UNCHANGED fullRest

NextFull == StepCollection \/ StepProcessing \/ StepAnalysis \/ StepReport

SpecFull == InitFull /\ [][NextFull]_vars

\* The place of a step in the order of the code; "empty" has none.
Rank(step) ==
    IF step = "empty" THEN 0
    ELSE CHOOSE k \in 1..4 : PipelineSteps[k] = step

Ran(step) == \E i \in 1..Len(steps) : steps[i] = step

\* C24: the steps run in the order collection, processing, analysis, report,
\* one after the other; a step with an empty result is the last one to run
\* and the pipeline returns False (no dashboard is generated); True is
\* returned only after report generation has been invoked.
C24_StepsInOrder ==
    /\ \A i, j \in 1..Len(steps) :
          i < j /\ steps[i] # "empty" /\ steps[j] # "empty"
              => Rank(steps[i]) < Rank(steps[j])
    /\ \A i \in 1..Len(steps) :
          steps[i] = "empty" =>
              /\ i = Len(steps)
              /\ pc = "full_returned" /\ outcome = "False"
              /\ ~Ran("report")
    /\ outcome = "False" => Ran("empty")
    /\ Ran("report") => Ran("analysis")
    /\ outcome = "True" =>
          pc = "full_returned" /\ steps[Len(steps)] = "report"
    /\ pc # "full_returned" => outcome = "none"

C24_Witness ==
    /\ pc = "full_returned"
    /\ outcome = "False"
    /\ steps = <<"collection", "processing", "analysis", "empty">>
    /\ "scouting_dashboard.html" \notin files

\* C25: when the collection step has run, the processing step runs too, so
\* the analysis never reads a processed file older than the raw data
\* collected in this invocation.
C25_CollectionImpliesProcessing ==
    Ran("collection") /\ Ran("analysis") => Ran("processing")

\* ---------------------------------------------------------------------------
\* _fetch_window
\* ---------------------------------------------------------------------------

\* Highest max_retries handed in.
MaxFetchRetries == 4

\* The pauses handed in, in tenths of a second.
Pauses == {5, 10, 20, 25}

\* What a call of statcast gives when it does not raise.
ProviderFrames == {"no rows", "rows"}

\* The mutant of Backoff: the same wait after every failure.
BackoffFlat(seconds, n) ==
    seconds

\* Line 46: pause * attempt.
Backoff(seconds, n) ==
    seconds * n

InitFetch ==
    /\ old_files = {} /\ months_with_rows = {} /\ parquet_files = {} /\ run_no = 0 /\ yr = 0 /\ mo = 0 /\ build_log = Idle
    /\ regular_days = {} /\ strategy = 0 /\ window = 0 /\ frames = Idle /\ last_err = Idle /\ failed = {} /\ month_result = Idle
    /\ month_days = 0 /\ start_d = 0 /\ end_d = 0 /\ chunks = 0 /\ cur = 0 /\ windows = Idle /\ strategies = Idle
    /\ pc = "fetch_loop"
    /\ max_retries \in 0..MaxFetchRetries
    /\ pause \in Pauses
    /\ attempt = 1
    /\ provider_calls = <<>> /\ sleeps = <<>>
    /\ fetched = [how |-> "running", frame |-> "none", attempt |-> 0]
    /\ force_redownload = FALSE
    /\ files = {} /\ steps = <<>> /\ outcome = "none"
    /\ targets_df = Idle /\ report_dict = Idle
    /\ written_details = Idle /\ csv_cells = Idle /\ loaded_details = Idle
    /\ raw_pitch_df = Idle /\ clean_pitch_df = Idle
    /\ pitch_df = Idle /\ result_df = Idle /\ runs = 0
    /\ pa_df = Idle /\ min_pa = 0 /\ filtered_df = Idle
    /\ flow_in = Idle /\ scouting_report = Idle /\ raised = FALSE
    /\ calls_in = Idle /\ pa_metrics_df = Idle
    /\ df = Idle /\ calls_df = Idle /\ impact_analysis = Idle
    /\ bad_call_counts = Idle /\ post_perf = Idle
    /\ pa_table = Idle /\ clean_pas = Idle /\ baseline_stats = Idle
    /\ baseline_df = Idle /\ merged_df = Idle

fetchRest == <<buildVars, monthVars, splitVars, callVars, aggVars, extVars, baseVars, scoreVars, qualVars,
               flowVars, ioVars, cleanVars, tripVars, reportVars, fullVars,
               max_retries, pause>>

\* range(1, max_retries + 1) is empty or used up: line 47.
FetchFallsThrough ==
    /\ pc = "fetch_loop"
    /\ attempt > max_retries
    /\ fetched' = [how |-> "returned", frame |-> "pd.DataFrame()", attempt |-> 0]
    /\ pc' = "fetch_done"
    /\ UNCHANGED <<attempt, provider_calls, sleeps, fetchRest>>

\* Line 42: statcast returns and so does _fetch_window.
FetchSucceeds ==
    /\ pc = "fetch_loop"
    /\ attempt <= max_retries
    /\ \E frame \in ProviderFrames :
          /\ provider_calls' = Append(provider_calls, frame)
          /\ fetched' = [how |-> "returned", frame |-> frame, attempt |-> attempt]
    /\ pc' = "fetch_done"
    /\ UNCHANGED <<attempt, sleeps, fetchRest>>

\* Lines 43-46: statcast raises; the last attempt re-raises, the others sleep.
FetchFails ==
    /\ pc = "fetch_loop"
    /\ attempt <= max_retries
    /\ provider_calls' = Append(provider_calls, "raised")
    /\ IF attempt = max_retries
       THEN /\ fetched' = [how |-> "raised", frame |-> "none", attempt |-> attempt]
            /\ pc' = "fetch_done"
            /\ UNCHANGED <<attempt, sleeps>>
       ELSE /\ sleeps' = Append(sleeps, Backoff(pause, attempt))
            /\ attempt' = attempt + 1
            /\ UNCHANGED <<pc, fetched>>
    /\ UNCHANGED fetchRest

NextFetch == FetchFallsThrough \/ FetchSucceeds \/ FetchFails

SpecFetch == InitFetch /\ [][NextFetch]_vars

Failures == {i \in 1..Len(provider_calls) : provider_calls[i] = "raised"}

\* C26: with max_retries >= 1 the provider is called at most max_retries
\* times; the first call that succeeds is the last call and its frame is
\* what is returned; after failed attempt number n, unless it is the last,
\* the wait is pause * n; when all max_retries attempts fail the exception of
\* the last one is raised; pd.DataFrame() never stands in for a failure.
C26_RetriesWithBackoff ==
    max_retries >= 1 =>
        /\ Len(provider_calls) <= max_retries
        /\ \A i \in 1..Len(provider_calls) :
              provider_calls[i] # "raised" =>
                  /\ i = Len(provider_calls)
                  /\ fetched = [how |-> "returned", frame |-> provider_calls[i],
                                attempt |-> i]
        /\ \A n \in 1..Len(sleeps) : sleeps[n] = pause * n
        /\ Len(sleeps) = Cardinality(Failures \ {max_retries})
        /\ fetched.how = "raised" <=>
              /\ Len(provider_calls) = max_retries
              /\ Failures = 1..max_retries
        /\ fetched.how = "raised" => fetched.attempt = max_retries
        /\ fetched.frame # "pd.DataFrame()"
        /\ pc = "fetch_done" <=> fetched.how # "running"

C26_Witness ==
    /\ pc = "fetch_done"
    /\ max_retries = 3
    /\ provider_calls = <<"raised", "raised", "rows">>
    /\ sleeps = <<pause, 2 * pause>>
    /\ fetched.how = "returned"

\* ---------------------------------------------------------------------------
\* _split_dates and the strategy ladder of fetch_month_robust.  A date is the
\* number of its day, the first of the month being 1.
\* ---------------------------------------------------------------------------

\* calendar.monthrange(year, month)[1]
MonthLengths == 28..31

\* Last day and most chunks handed to _split_dates on its own.
MaxSplitDay == 8
MaxChunks   == 4

\* math.ceil(a / b) for a >= 0, b >= 1.
Ceil(a, b) == (a + b - 1) \div b

Maximum(a, b) == IF a >= b THEN a ELSE b
Minimum(a, b) == IF a <= b THEN a ELSE b

\* Line 57: size = max(1, math.ceil(total_days / chunks)).
ChunkSize(total_days, n) ==
    Maximum(1, Ceil(total_days, n))

\* The mutant of WindowEnd: the window is not cut at end_d.
WindowEndUncut(from, size, last) ==
    from + size - 1

\* Line 60: nxt = min(cur + timedelta(days=size - 1), end_d).
WindowEnd(from, size, last) ==
    Minimum(from + size - 1, last)

\* Line 83: chunks = max(1, math.ceil((end_d - start_d).days / 10)).
MonthChunks(first, last) ==
    Maximum(1, Ceil(last - first, 10))

InitSplit ==
    /\ old_files = {} /\ months_with_rows = {} /\ parquet_files = {} /\ run_no = 0 /\ yr = 0 /\ mo = 0 /\ build_log = Idle
    /\ regular_days = {} /\ strategy = 0 /\ window = 0 /\ frames = Idle /\ last_err = Idle /\ failed = {} /\ month_result = Idle
    /\ pc = "split_loop"
    /\ \/ /\ month_days \in MonthLengths
          /\ start_d = 1 /\ end_d = month_days
          /\ chunks = MonthChunks(start_d, end_d)
       \/ /\ month_days = 0
          /\ start_d \in 1..MaxSplitDay
          /\ end_d \in start_d..MaxSplitDay
          /\ chunks \in 1..MaxChunks
    /\ cur = start_d
    /\ windows = <<>>
    /\ strategies = <<>>
    /\ max_retries = 0 /\ pause = 0 /\ attempt = 0
    /\ provider_calls = Idle /\ sleeps = Idle /\ fetched = Idle
    /\ force_redownload = FALSE
    /\ files = {} /\ steps = <<>> /\ outcome = "none"
    /\ targets_df = Idle /\ report_dict = Idle
    /\ written_details = Idle /\ csv_cells = Idle /\ loaded_details = Idle
    /\ raw_pitch_df = Idle /\ clean_pitch_df = Idle
    /\ pitch_df = Idle /\ result_df = Idle /\ runs = 0
    /\ pa_df = Idle /\ min_pa = 0 /\ filtered_df = Idle
    /\ flow_in = Idle /\ scouting_report = Idle /\ raised = FALSE
    /\ calls_in = Idle /\ pa_metrics_df = Idle
    /\ df = Idle /\ calls_df = Idle /\ impact_analysis = Idle
    /\ bad_call_counts = Idle /\ post_perf = Idle
    /\ pa_table = Idle /\ clean_pas = Idle /\ baseline_stats = Idle
    /\ baseline_df = Idle /\ merged_df = Idle

splitRest == <<buildVars, monthVars, callVars, aggVars, extVars, baseVars, scoreVars, qualVars,
               flowVars, ioVars, cleanVars, tripVars, reportVars, fullVars,
               fetchVars, month_days, start_d, end_d, chunks>>

\* Lines 59-62: one turn of the while loop.
SplitYield ==
    /\ pc = "split_loop"
    /\ cur <= end_d
    /\ LET size == ChunkSize(end_d - start_d + 1, chunks)
           nxt == WindowEnd(cur, size, end_d)
       IN  /\ windows' = Append(windows, <<cur, nxt>>)
           /\ cur' = nxt + 1
    /\ UNCHANGED <<pc, strategies, splitRest>>

\* The loop ends; _split_dates was called on its own.
SplitReturns ==
    /\ pc = "split_loop"
    /\ cur > end_d
    /\ month_days = 0
    /\ pc' = "split_done"
    /\ UNCHANGED <<cur, windows, strategies, splitRest>>

\* The loop ends inside fetch_month_robust: the ladder of lines 79-84.
BuildStrategies ==
    /\ pc = "split_loop"
    /\ cur > end_d
    /\ month_days # 0
    /\ LET mid == start_d + ((end_d - start_d) \div 2)
       IN  strategies' =
               << <<<<start_d, end_d>>>>,
                  <<<<start_d, mid>>, <<mid + 1, end_d>>>>,
                  windows,
                  [i \in 1..(end_d - start_d + 1) |->
                      <<start_d + i - 1, start_d + i - 1>>] >>
    /\ pc' = "ladder_built"
    /\ UNCHANGED <<cur, windows, splitRest>>

NextSplit == SplitYield \/ SplitReturns \/ BuildStrategies

SpecSplit == InitSplit /\ [][NextSplit]_vars

\* The windows of ws are in ascending order, none is empty, each starts the
\* day after the one before it ends, the first starts on day first and the
\* last ends on day last: each day first..last is in exactly one.
Partitions(ws, first, last) ==
    /\ Len(ws) >= 1
    /\ ws[1][1] = first
    /\ ws[Len(ws)][2] = last
    /\ \A k \in 1..Len(ws) : ws[k][1] <= ws[k][2]
    /\ \A k \in 1..(Len(ws) - 1) : ws[k + 1][1] = ws[k][2] + 1
    /\ \A day \in first..last :
          Cardinality({k \in 1..Len(ws) : ws[k][1] <= day /\ day <= ws[k][2]}) = 1

\* C29: for a month of 28 to 31 days each of the four strategies partitions
\* the month; _split_dates, for any start <= end and chunks >= 1, comes to an
\* end (each turn of its loop yields a window that is not empty and moves
\* cur past it, so there are at most as many turns as days) and has then
\* yielded a partition of start..end.
C29_WindowsPartition ==
    /\ pc = "ladder_built" =>
          /\ Len(strategies) = 4
          /\ \A s \in 1..4 : Partitions(strategies[s], 1, month_days)
    /\ pc = "split_done" => Partitions(windows, start_d, end_d)
    /\ pc = "split_loop" =>
          /\ cur <= end_d + 1
          /\ Len(windows) <= cur - start_d
          /\ cur > start_d => Partitions(windows, start_d, cur - 1)
          /\ ENABLED NextSplit

C29_Witness ==
    /\ pc = "ladder_built"
    /\ month_days = 31
    /\ strategies[2] = <<<<1, 16>>, <<17, 31>>>>
    /\ strategies[3] = <<<<1, 11>>, <<12, 22>>, <<23, 31>>>>
    /\ Len(strategies[4]) = 31

\* ---------------------------------------------------------------------------
\* fetch_month_robust: walking down the ladder
\* ---------------------------------------------------------------------------

\* The days with regular-season rows, for a month of n days: none, the
\* first, the last, two in the middle, all.
RegularDays(n) == {{}, {1}, {n}, {2, 20}, 1..n}

InitMonth ==
    /\ old_files = {} /\ months_with_rows = {} /\ parquet_files = {} /\ run_no = 0 /\ yr = 0 /\ mo = 0 /\ build_log = Idle
    /\ pc = "split_loop"
    /\ month_days \in MonthLengths
    /\ start_d = 1 /\ end_d = month_days
    /\ chunks = MonthChunks(start_d, end_d)
    /\ cur = start_d
    /\ windows = <<>>
    /\ strategies = <<>>
    /\ regular_days \in RegularDays(month_days)
    /\ strategy = 1 /\ window = 1
    /\ frames = <<>> /\ last_err = <<>> /\ failed = {}
    /\ month_result = [how |-> "running", rows |-> <<>>, err |-> <<>>]
    /\ max_retries = 0 /\ pause = 0 /\ attempt = 0
    /\ provider_calls = Idle /\ sleeps = Idle /\ fetched = Idle
    /\ force_redownload = FALSE
    /\ files = {} /\ steps = <<>> /\ outcome = "none"
    /\ targets_df = Idle /\ report_dict = Idle
    /\ written_details = Idle /\ csv_cells = Idle /\ loaded_details = Idle
    /\ raw_pitch_df = Idle /\ clean_pitch_df = Idle
    /\ pitch_df = Idle /\ result_df = Idle /\ runs = 0
    /\ pa_df = Idle /\ min_pa = 0 /\ filtered_df = Idle
    /\ flow_in = Idle /\ scouting_report = Idle /\ raised = FALSE
    /\ calls_in = Idle /\ pa_metrics_df = Idle
    /\ df = Idle /\ calls_df = Idle /\ impact_analysis = Idle
    /\ bad_call_counts = Idle /\ post_perf = Idle
    /\ pa_table = Idle /\ clean_pas = Idle /\ baseline_stats = Idle
    /\ baseline_df = Idle /\ merged_df = Idle

monthRest == <<buildVars, callVars, aggVars, extVars, baseVars, scoreVars, qualVars,
               flowVars, ioVars, cleanVars, tripVars, reportVars, fullVars,
               fetchVars, splitVars, regular_days>>

\* The days of window w of strategy s that carry rows.
RowsOfWindow(s, w) ==
    {day \in regular_days : strategies[s][w][1] <= day /\ day <= strategies[s][w][2]}

\* Lines 89-92: the next strategy starts with frames = []; after the last
\* one the loop is left.
LadderNext ==
    /\ pc \in {"ladder_built", "ladder_next"}
    /\ IF strategy <= Len(strategies)
       THEN frames' = <<>> /\ window' = 1 /\ pc' = "ladder_fetch"
       ELSE pc' = "ladder_end" /\ UNCHANGED <<frames, window>>
    /\ UNCHANGED <<strategy, last_err, failed, month_result, monthRest>>

\* Lines 94-107: _fetch_window returns; a frame without rows of the game
\* type is skipped, another is appended.
WindowFetched ==
    /\ pc = "ladder_fetch"
    /\ window <= Len(strategies[strategy])
    /\ frames' = IF RowsOfWindow(strategy, window) = {} THEN frames
                 ELSE Append(frames, <<strategy, window>>)
    /\ window' = window + 1
    /\ UNCHANGED <<pc, strategy, last_err, failed, month_result, monthRest>>

\* Lines 110-114: _fetch_window raises; frames is left as it is.
WindowFails ==
    /\ pc = "ladder_fetch"
    /\ window <= Len(strategies[strategy])
    /\ last_err' = <<strategy, window>>
    /\ failed' = failed \cup {strategy}
    /\ strategy' = strategy + 1
    /\ pc' = "ladder_next"
    /\ UNCHANGED <<window, frames, month_result, monthRest>>

\* Lines 108-109: every window is fetched; break if frames, else go on.
StrategyFetched ==
    /\ pc = "ladder_fetch"
    /\ window > Len(strategies[strategy])
    /\ IF frames # <<>>
       THEN pc' = "ladder_end" /\ UNCHANGED strategy
       ELSE pc' = "ladder_next" /\ strategy' = strategy + 1
    /\ UNCHANGED <<window, frames, last_err, failed, month_result, monthRest>>

\* Lines 116-121.
LadderEnds ==
    /\ pc = "ladder_end"
    /\ month_result' =
          IF frames = <<>>
          THEN IF last_err # <<>>
               THEN [how |-> "raised", rows |-> <<>>, err |-> last_err]
               ELSE [how |-> "returned", rows |-> <<>>, err |-> <<>>]
          ELSE [how |-> "returned", rows |-> frames, err |-> <<>>]
    /\ pc' = "month_done"
    /\ UNCHANGED <<strategy, window, frames, last_err, failed, monthRest>>

NextMonth ==
    \/ SplitYield
    \/ BuildStrategies
    \/ LadderNext
    \/ WindowFetched
    \/ WindowFails
    \/ StrategyFetched
    \/ LadderEnds

SpecMonth == InitMonth /\ [][NextMonth]_vars

MonthDone == pc = "month_done"

\* The days whose rows are in the frame returned, each as often as it is.
TimesReturned(day) ==
    Cardinality({k \in 1..Len(month_result.rows) :
        day \in RowsOfWindow(month_result.rows[k][1], month_result.rows[k][2])})

\* What the ladder does keep: the strategies are tried in the order 1, 2, 3,
\* 4, the frames returned are all of one strategy, and no day's rows are
\* returned twice.
RowsOfOneStrategyOnce ==
    /\ failed \subseteq 1..4
    /\ pc \in {"ladder_fetch", "ladder_next"} => \A s \in failed : s <= strategy
    /\ MonthDone =>
          /\ \A k, l \in 1..Len(month_result.rows) :
                month_result.rows[k][1] = month_result.rows[l][1]
          /\ \A day \in 1..month_days : TimesReturned(day) <= 1

\* C27: the frames a strategy has fetched are discarded when one of its
\* windows fails, and the rows returned are those of exactly one strategy,
\* the first whose windows all succeed with at least one frame with rows; no
\* window's rows are returned twice.
C27_RowsOfFirstCompleteStrategy ==
    MonthDone /\ month_result.rows # <<>> =>
        /\ \A k \in 1..Len(month_result.rows) :
              /\ month_result.rows[k][1] = strategy
              /\ strategy \notin failed
        /\ \A day \in 1..month_days :
              TimesReturned(day) = (IF day \in regular_days THEN 1 ELSE 0)

\* C28: fetch_month_robust raises only if every strategy of the ladder
\* failed; if one strategy fetched all of its windows without an error it
\* returns, an empty frame when the month has no matching rows.
C28_RaisesOnlyIfAllFailed ==
    MonthDone /\ month_result.how = "raised" => failed = 1..4

\* ---------------------------------------------------------------------------
\* build_parquet_years
\* ---------------------------------------------------------------------------

\* range(3, 12)
FirstBuildMonth == 3
LastBuildMonth == 11

\* start_year .. end_year of the runs followed.
BuildYears == {2015, 2016}

\* Most runs of build_parquet_years over the same out_dir.
MaxRuns == 2

BuildMonths == BuildYears \X (FirstBuildMonth..LastBuildMonth)

FirstYear == CHOOSE y \in BuildYears : \A z \in BuildYears : y <= z
LastYear == CHOOSE y \in BuildYears : \A z \in BuildYears : z <= y

\* The files found in out_dir before the first run, and the months with
\* regular-season rows.
OldFiles == {{}, {<<FirstYear, FirstBuildMonth>>},
             {<<FirstYear, 5>>, <<LastYear, LastBuildMonth>>}}
MonthsWithRows == {{}, BuildMonths,
                   BuildMonths \ {<<FirstYear, 4>>, <<LastYear, 3>>}}

\* The mutant of PathExists: no file is ever found.
PathExistsNever(existing, year, month) ==
    FALSE

\* os.path.exists(fpath), fpath being statcast_<yr>_<mo>.parquet.
PathExists(existing, year, month) ==
    <<year, month>> \in existing

InitBuild ==
    /\ pc = "build_loop"
    /\ old_files \in OldFiles
    /\ months_with_rows \in MonthsWithRows
    /\ parquet_files = old_files
    /\ run_no = 1
    /\ yr = FirstYear /\ mo = FirstBuildMonth
    /\ build_log = <<>>
    /\ regular_days = {} /\ strategy = 0 /\ window = 0
    /\ frames = Idle /\ last_err = Idle /\ failed = {} /\ month_result = Idle
    /\ month_days = 0 /\ start_d = 0 /\ end_d = 0 /\ chunks = 0 /\ cur = 0
    /\ windows = Idle /\ strategies = Idle
    /\ max_retries = 0 /\ pause = 0 /\ attempt = 0
    /\ provider_calls = Idle /\ sleeps = Idle /\ fetched = Idle
    /\ force_redownload = FALSE
    /\ files = {} /\ steps = <<>> /\ outcome = "none"
    /\ targets_df = Idle /\ report_dict = Idle
    /\ written_details = Idle /\ csv_cells = Idle /\ loaded_details = Idle
    /\ raw_pitch_df = Idle /\ clean_pitch_df = Idle
    /\ pitch_df = Idle /\ result_df = Idle /\ runs = 0
    /\ pa_df = Idle /\ min_pa = 0 /\ filtered_df = Idle
    /\ flow_in = Idle /\ scouting_report = Idle /\ raised = FALSE
    /\ calls_in = Idle /\ pa_metrics_df = Idle
    /\ df = Idle /\ calls_df = Idle /\ impact_analysis = Idle
    /\ bad_call_counts = Idle /\ post_perf = Idle
    /\ pa_table = Idle /\ clean_pas = Idle /\ baseline_stats = Idle
    /\ baseline_df = Idle /\ merged_df = Idle

buildRest == <<callVars, aggVars, extVars, baseVars, scoreVars, qualVars,
               flowVars, ioVars, cleanVars, tripVars, reportVars, fullVars,
               fetchVars, splitVars, monthVars, old_files, months_with_rows>>

\* The loops of lines 210-211 move on to the next month.
NextMonthOfLoops ==
    IF mo < LastBuildMonth THEN yr' = yr /\ mo' = mo + 1
    ELSE yr' = yr + 1 /\ mo' = FirstBuildMonth

Event(what) == [what |-> what, run_no |-> run_no, yr |-> yr, mo |-> mo]

\* Lines 214-217: the file exists, continue.
BuildSkips ==
    /\ pc = "build_loop" /\ yr <= LastYear
    /\ PathExists(parquet_files, yr, mo)
    /\ NextMonthOfLoops
    /\ UNCHANGED <<pc, parquet_files, run_no, build_log, buildRest>>

\* Line 220: fetch_month_robust returns.
BuildFetches ==
    /\ pc = "build_loop" /\ yr <= LastYear
    /\ ~PathExists(parquet_files, yr, mo)
    /\ build_log' = Append(build_log, Event("fetch"))
    /\ pc' = "build_fetched"
    /\ UNCHANGED <<parquet_files, run_no, yr, mo, buildRest>>

\* Line 220: fetch_month_robust raises and the run ends with the exception.
BuildFetchRaises ==
    /\ pc = "build_loop" /\ yr <= LastYear
    /\ ~PathExists(parquet_files, yr, mo)
    /\ build_log' = Append(build_log, Event("fetch"))
    /\ pc' = "build_interrupted"
    /\ UNCHANGED <<parquet_files, run_no, yr, mo, buildRest>>

\* Lines 221-227: a frame with rows is written, another is not.
BuildWrites ==
    /\ pc = "build_fetched"
    /\ IF <<yr, mo>> \in months_with_rows
       THEN /\ parquet_files' = parquet_files \cup {<<yr, mo>>}
            /\ build_log' = Append(build_log, Event("write"))
       ELSE UNCHANGED <<parquet_files, build_log>>
    /\ NextMonthOfLoops
    /\ pc' = "build_loop"
    /\ UNCHANGED <<run_no, buildRest>>

\* The process is stopped before the next month, or inside to_parquet, which
\* leaves a file behind.
BuildStopped ==
    /\ \/ /\ pc = "build_loop" /\ yr <= LastYear
          /\ UNCHANGED <<parquet_files, build_log>>
       \/ /\ pc = "build_fetched" /\ <<yr, mo>> \in months_with_rows
          /\ parquet_files' = parquet_files \cup {<<yr, mo>>}
          /\ build_log' = Append(build_log, Event("write"))
    /\ pc' = "build_interrupted"
    /\ UNCHANGED <<run_no, yr, mo, buildRest>>

\* Both loops are used up.
BuildReturns ==
    /\ pc = "build_loop" /\ yr > LastYear
    /\ pc' = "build_done"
    /\ UNCHANGED <<parquet_files, run_no, yr, mo, build_log, buildRest>>

\* build_parquet_years is run again over the same out_dir.
BuildAgain ==
    /\ pc \in {"build_interrupted", "build_done"}
    /\ run_no < MaxRuns
    /\ run_no' = run_no + 1
    /\ yr' = FirstYear /\ mo' = FirstBuildMonth
    /\ pc' = "build_loop"
    /\ UNCHANGED <<parquet_files, build_log, buildRest>>

NextBuild ==
    \/ BuildSkips
    \/ BuildFetches
    \/ BuildFetchRaises
    \/ BuildWrites
    \/ BuildStopped
    \/ BuildReturns
    \/ BuildAgain

SpecBuild == InitBuild /\ [][NextBuild]_vars

\* (year, month) a comes before b.
MonthBefore(a, b) == a.yr < b.yr \/ (a.yr = b.yr /\ a.mo < b.mo)

Fetches == {i \in 1..Len(build_log) : build_log[i].what = "fetch"}
Writes == {i \in 1..Len(build_log) : build_log[i].what = "write"}

SameMonth(i, j) ==
    build_log[i].yr = build_log[j].yr /\ build_log[i].mo = build_log[j].mo

\* The months that had a file when run r began.
FilesBefore(r) ==
    old_files \cup {<<build_log[i].yr, build_log[i].mo>> :
                       i \in {j \in Writes : build_log[j].run_no < r}}

\* C30: the months are visited in ascending (year, month) order, March to
\* November; a month whose file exists is neither fetched nor written
\* again; a file is written only for a month whose fetch returned rows; a
\* later run leaves the files it finds as they are, and a run that comes to
\* its end has fetched exactly the months that had no file when it began.
C30_ResumesSafely ==
    /\ \A i \in Fetches :
          /\ build_log[i].mo \in FirstBuildMonth..LastBuildMonth
          /\ <<build_log[i].yr, build_log[i].mo>> \notin FilesBefore(build_log[i].run_no)
          /\ \A j \in Fetches :
                i < j /\ build_log[i].run_no = build_log[j].run_no
                    => MonthBefore(build_log[i], build_log[j])
          /\ \A j \in Writes : j < i => ~SameMonth(i, j)
    /\ \A j \in Writes :
          /\ j - 1 \in Fetches
          /\ SameMonth(j - 1, j)
          /\ build_log[j - 1].run_no = build_log[j].run_no
          /\ <<build_log[j].yr, build_log[j].mo>> \in months_with_rows
          /\ <<build_log[j].yr, build_log[j].mo>> \notin old_files
          /\ \A k \in Writes : SameMonth(j, k) => j = k
    /\ old_files \subseteq parquet_files
    /\ parquet_files =
          old_files \cup {<<build_log[j].yr, build_log[j].mo>> : j \in Writes}
    /\ pc = "build_done" =>
          {<<build_log[i].yr, build_log[i].mo>> :
               i \in {k \in Fetches : build_log[k].run_no = run_no}}
            = BuildMonths \ FilesBefore(run_no)

C30_Witness ==
    /\ pc = "build_done"
    /\ run_no = 2
    /\ old_files # {}
    /\ \E i \in Writes : build_log[i].run_no = 1
    /\ \E i \in Writes : build_log[i].run_no = 2
    /\ \E i \in Fetches : build_log[i].run_no = 2 /\ i + 1 \notin Writes
    /\ parquet_files # BuildMonths

====
